---- MODULE Spec2Model ----
(***************************************************************************)
(* Model of anrgct/autodev-codebase:                                       *)
(*   - CodeIndexConfigManager (src/src/code-index/config-manager.ts):      *)
(*     the configuration / restart controller.                             *)
(*   - processCaptures (src/unnamed/part_000): the tag-capture processor.  *)
(*                                                                         *)
(* An optional value (TypeScript `T | undefined`) is a set with at most    *)
(* one element: None is `undefined`, Some(x) is a defined value.           *)
(***************************************************************************)
EXTENDS Integers, Sequences, FiniteSets, TLC

None == {}
Some(x) == {x}
Get(o) == CHOOSE v \in o : TRUE
\* the ?? operator
OrElse(o, d) == IF o = None THEN d ELSE Get(o)
\* JavaScript truthiness of an optional string
Truthy(o) == o # None /\ Get(o) # ""

(***************************************************************************)
(* Part I.  CodeIndexConfigManager                                         *)
(***************************************************************************)

VARIABLES
    isEnabled, embedderProvider, modelId,
    openAiOptions, ollamaOptions, openAiCompatibleOptions,
    qdrantUrl, qdrantApiKey, searchMinScore,
    lastLoadedConfig,   \* what configProvider.getConfig() returned to the last load
    loadResult          \* value returned by loadConfiguration, until the caller takes it

cfgVars == <<isEnabled, embedderProvider, modelId,
             openAiOptions, ollamaOptions, openAiCompatibleOptions,
             qdrantUrl, qdrantApiKey, searchMinScore,
             lastLoadedConfig, loadResult>>

DEFAULT_QDRANT_URL == "http://localhost:6333"
\* SEARCH_MIN_SCORE (0.4), in hundredths
SEARCH_MIN_SCORE == 40

\* ---- ../shared/embeddingModels (not part of the source tree at hand) ----
ModelIds == {"nomic-embed-text", "alt-768", "large-1024", "unlisted"}

getDefaultModelId(provider) == "nomic-embed-text"

getModelDimension(provider, model) ==
    IF provider \notin {"openai", "ollama", "openai-compatible"} THEN None
    ELSE CASE model = "nomic-embed-text" -> Some(768)
           [] model = "alt-768"          -> Some(768)
           [] model = "large-1024"       -> Some(1024)
           [] OTHER                      -> None

\* ---- values the config provider can return ----
ApiKeys == {"", "key-1"}
OpenAiApiKeys == ApiKeys \cup {"key-2"}
BaseUrls == {"", "http://host-1"}
ModelOpts == {None} \cup {Some(m) : m \in ModelIds}
DimensionOpts == {None, Some(768), Some(1024)}

OpenAIEmbedderConfigs ==
    [provider : {"openai"}, model : ModelOpts,
     apiKey : {Some(k) : k \in OpenAiApiKeys}, baseUrl : {None}, dimension : {None}]
OllamaEmbedderConfigs ==
    [provider : {"ollama"}, model : ModelOpts,
     apiKey : {None}, baseUrl : {Some(u) : u \in BaseUrls}, dimension : {None}]
OpenAICompatibleEmbedderConfigs ==
    [provider : {"openai-compatible"}, model : ModelOpts,
     apiKey : {Some(k) : k \in ApiKeys},
     baseUrl : {Some(u) : u \in BaseUrls}, dimension : DimensionOpts]
\* a provider string none of the three branches recognises
UnrecognisedEmbedderConfigs ==
    [provider : {"unrecognised"}, model : {Some("large-1024")},
     apiKey : {Some("key-1")}, baseUrl : {Some("http://host-1")}, dimension : {None}]

EmbedderConfigs ==
    OpenAIEmbedderConfigs \cup OllamaEmbedderConfigs
        \cup OpenAICompatibleEmbedderConfigs \cup UnrecognisedEmbedderConfigs

Configs ==
    [isEnabled : BOOLEAN, embedder : EmbedderConfigs,
     qdrantUrl : {None, Some("")},
     qdrantApiKey : {None, Some("qdrant-key")},
     searchMinScore : {None}]

\* ---- the manager object ----
This ==
    [isEnabled |-> isEnabled, embedderProvider |-> embedderProvider, modelId |-> modelId,
     openAiOptions |-> openAiOptions, ollamaOptions |-> ollamaOptions,
     openAiCompatibleOptions |-> openAiCompatibleOptions,
     qdrantUrl |-> qdrantUrl, qdrantApiKey |-> qdrantApiKey,
     searchMinScore |-> searchMinScore]

\* this.openAiOptions?.apiKey and friends
OpenAiApiKeyOf(m) == IF m.openAiOptions = None THEN None ELSE Get(m.openAiOptions).apiKey
OllamaBaseUrlOf(m) == IF m.ollamaOptions = None THEN None ELSE Get(m.ollamaOptions).ollamaBaseUrl
CompatBaseUrlOf(m) ==
    IF m.openAiCompatibleOptions = None THEN None ELSE Get(m.openAiCompatibleOptions).baseUrl
CompatApiKeyOf(m) ==
    IF m.openAiCompatibleOptions = None THEN None ELSE Get(m.openAiCompatibleOptions).apiKey
CompatModelDimensionOf(m) ==
    IF m.openAiCompatibleOptions = None THEN None
    ELSE Get(m.openAiCompatibleOptions).modelDimension

\* mutation: the options of the other providers are not cleared
LoadAndSetConfiguration_OptionsKept(m, config) ==
    LET e == config.embedder
        withProvider ==
            IF e.provider = "openai" THEN
                [m EXCEPT !.embedderProvider = "openai",
                          !.modelId = e.model,
                          !.openAiOptions =
                              Some([apiKey |-> e.apiKey, openAiNativeApiKey |-> e.apiKey])]
            ELSE IF e.provider = "ollama" THEN
                [m EXCEPT !.embedderProvider = "ollama",
                          !.modelId = e.model,
                          !.ollamaOptions = Some([ollamaBaseUrl |-> e.baseUrl])]
            ELSE IF e.provider = "openai-compatible" THEN
                [m EXCEPT !.embedderProvider = "openai-compatible",
                          !.modelId = e.model,
                          !.openAiCompatibleOptions =
                              Some([baseUrl |-> e.baseUrl, apiKey |-> e.apiKey,
                                    modelDimension |-> e.dimension])]
            ELSE m
    IN  [withProvider EXCEPT
            !.isEnabled = config.isEnabled,
            !.qdrantUrl = Some(OrElse(config.qdrantUrl, DEFAULT_QDRANT_URL)),
            !.qdrantApiKey = Some(OrElse(config.qdrantApiKey, "")),
            !.searchMinScore = Some(OrElse(config.searchMinScore, SEARCH_MIN_SCORE))]

\* _loadAndSetConfiguration: the manager after reading `config`
LoadAndSetConfiguration(m, config) ==
    LET e == config.embedder
        withProvider ==
            IF e.provider = "openai" THEN
                [m EXCEPT !.embedderProvider = "openai",
                          !.modelId = e.model,
                          !.openAiOptions =
                              Some([apiKey |-> e.apiKey, openAiNativeApiKey |-> e.apiKey]),
                          !.ollamaOptions = None,
                          !.openAiCompatibleOptions = None]
            ELSE IF e.provider = "ollama" THEN
                [m EXCEPT !.embedderProvider = "ollama",
                          !.modelId = e.model,
                          !.ollamaOptions = Some([ollamaBaseUrl |-> e.baseUrl]),
                          !.openAiOptions = None,
                          !.openAiCompatibleOptions = None]
            ELSE IF e.provider = "openai-compatible" THEN
                [m EXCEPT !.embedderProvider = "openai-compatible",
                          !.modelId = e.model,
                          !.openAiCompatibleOptions =
                              Some([baseUrl |-> e.baseUrl, apiKey |-> e.apiKey,
                                    modelDimension |-> e.dimension]),
                          !.openAiOptions = None,
                          !.ollamaOptions = None]
            ELSE m
    IN  [withProvider EXCEPT
            !.isEnabled = config.isEnabled,
            !.qdrantUrl = Some(OrElse(config.qdrantUrl, DEFAULT_QDRANT_URL)),
            !.qdrantApiKey = Some(OrElse(config.qdrantApiKey, "")),
            !.searchMinScore = Some(OrElse(config.searchMinScore, SEARCH_MIN_SCORE))]

IsConfigured(m) ==
    IF m.embedderProvider = "openai" THEN
        Truthy(OpenAiApiKeyOf(m)) /\ Truthy(m.qdrantUrl)
    ELSE IF m.embedderProvider = "ollama" THEN
        Truthy(OllamaBaseUrlOf(m)) /\ Truthy(m.qdrantUrl)
    ELSE IF m.embedderProvider = "openai-compatible" THEN
        Truthy(CompatBaseUrlOf(m)) /\ Truthy(CompatApiKeyOf(m)) /\ Truthy(m.qdrantUrl)
    ELSE FALSE

\* previousConfigSnapshot as loadConfiguration builds it
ConfigSnapshotOf(m) ==
    [enabled |-> m.isEnabled,
     configured |-> IsConfigured(m),
     embedderProvider |-> m.embedderProvider,
     modelId |-> m.modelId,
     openAiKey |-> OrElse(OpenAiApiKeyOf(m), ""),
     ollamaBaseUrl |-> OrElse(OllamaBaseUrlOf(m), ""),
     openAiCompatibleBaseUrl |-> OrElse(CompatBaseUrlOf(m), ""),
     openAiCompatibleApiKey |-> OrElse(CompatApiKeyOf(m), ""),
     openAiCompatibleModelDimension |-> CompatModelDimensionOf(m),
     qdrantUrl |-> OrElse(m.qdrantUrl, ""),
     qdrantApiKey |-> OrElse(m.qdrantApiKey, "")]

\* mutation: the same-model early return is missing
HasVectorDimensionChanged_NoSameModelReturn(m, prevProvider, prevModelId) ==
    LET currentProvider == m.embedderProvider
        currentModelId == OrElse(m.modelId, getDefaultModelId(currentProvider))
        resolvedPrevModelId == OrElse(prevModelId, getDefaultModelId(prevProvider))
        prevDimension == getModelDimension(prevProvider, resolvedPrevModelId)
        currentDimension == getModelDimension(currentProvider, currentModelId)
    IN  IF prevDimension = None \/ currentDimension = None THEN TRUE
        ELSE prevDimension # currentDimension

\* mutation: an unresolvable dimension counts as "unchanged"
HasVectorDimensionChanged_NotConservative(m, prevProvider, prevModelId) ==
    LET currentProvider == m.embedderProvider
        currentModelId == OrElse(m.modelId, getDefaultModelId(currentProvider))
        resolvedPrevModelId == OrElse(prevModelId, getDefaultModelId(prevProvider))
        prevDimension == getModelDimension(prevProvider, resolvedPrevModelId)
        currentDimension == getModelDimension(currentProvider, currentModelId)
    IN  IF prevProvider = currentProvider /\ resolvedPrevModelId = currentModelId THEN FALSE
        ELSE IF prevDimension = None \/ currentDimension = None THEN FALSE
        ELSE prevDimension # currentDimension

\* mutation: the model ids are compared instead of their dimensions' difference
HasVectorDimensionChanged_InvertedCompare(m, prevProvider, prevModelId) ==
    LET currentProvider == m.embedderProvider
        currentModelId == OrElse(m.modelId, getDefaultModelId(currentProvider))
        resolvedPrevModelId == OrElse(prevModelId, getDefaultModelId(prevProvider))
        prevDimension == getModelDimension(prevProvider, resolvedPrevModelId)
        currentDimension == getModelDimension(currentProvider, currentModelId)
    IN  IF prevProvider = currentProvider /\ resolvedPrevModelId = currentModelId THEN FALSE
        ELSE IF prevDimension = None \/ currentDimension = None THEN TRUE
        ELSE prevDimension = currentDimension

\* mutation: a missing model id is not resolved to the default model
HasVectorDimensionChanged_NoDefaultModel(m, prevProvider, prevModelId) ==
    LET currentProvider == m.embedderProvider
        prevDimension ==
            IF prevModelId = None THEN None ELSE getModelDimension(prevProvider, Get(prevModelId))
        currentDimension ==
            IF m.modelId = None THEN None ELSE getModelDimension(currentProvider, Get(m.modelId))
    IN  IF prevProvider = currentProvider /\ prevModelId = m.modelId THEN FALSE
        ELSE IF prevDimension = None \/ currentDimension = None THEN TRUE
        ELSE prevDimension # currentDimension

HasVectorDimensionChanged(m, prevProvider, prevModelId) ==
    LET currentProvider == m.embedderProvider
        currentModelId == OrElse(m.modelId, getDefaultModelId(currentProvider))
        resolvedPrevModelId == OrElse(prevModelId, getDefaultModelId(prevProvider))
        prevDimension == getModelDimension(prevProvider, resolvedPrevModelId)
        currentDimension == getModelDimension(currentProvider, currentModelId)
    IN  IF prevProvider = currentProvider /\ resolvedPrevModelId = currentModelId THEN FALSE
        ELSE IF prevDimension = None \/ currentDimension = None THEN TRUE
        ELSE prevDimension # currentDimension

\* step 4 of doesConfigChangeRequireRestart: the relevant settings
RelevantSettingsChanged(m, prev) ==
    LET currentOpenAiKey == OrElse(OpenAiApiKeyOf(m), "")
        currentOllamaBaseUrl == OrElse(OllamaBaseUrlOf(m), "")
        currentOpenAiCompatibleBaseUrl == OrElse(CompatBaseUrlOf(m), "")
        currentOpenAiCompatibleApiKey == OrElse(CompatApiKeyOf(m), "")
        currentOpenAiCompatibleModelDimension == CompatModelDimensionOf(m)
        currentQdrantUrl == OrElse(m.qdrantUrl, "")
        currentQdrantApiKey == OrElse(m.qdrantApiKey, "")
    IN  IF prev.embedderProvider # m.embedderProvider THEN TRUE
        ELSE IF HasVectorDimensionChanged(m, prev.embedderProvider, prev.modelId) THEN TRUE
        ELSE IF m.embedderProvider = "openai"
                /\ prev.openAiKey # currentOpenAiKey THEN TRUE
        ELSE IF m.embedderProvider = "ollama"
                /\ prev.ollamaBaseUrl # currentOllamaBaseUrl THEN TRUE
        ELSE IF m.embedderProvider = "openai-compatible"
                /\ (\/ prev.openAiCompatibleBaseUrl # currentOpenAiCompatibleBaseUrl
                    \/ prev.openAiCompatibleApiKey # currentOpenAiCompatibleApiKey
                    \/ prev.openAiCompatibleModelDimension
                           # currentOpenAiCompatibleModelDimension) THEN TRUE
        ELSE prev.qdrantUrl # currentQdrantUrl \/ prev.qdrantApiKey # currentQdrantApiKey

\* mutation: the "wasn't ready before and isn't ready now" return is missing
DoesConfigChangeRequireRestart_NoUnconfiguredReturn(m, prev) ==
    LET nowConfigured == IsConfigured(m)
    IN  IF (~prev.enabled \/ ~prev.configured) /\ m.isEnabled /\ nowConfigured THEN TRUE
        ELSE IF ~prev.enabled /\ ~m.isEnabled THEN FALSE
        ELSE IF m.isEnabled \/ prev.enabled THEN RelevantSettingsChanged(m, prev)
        ELSE FALSE

DoesConfigChangeRequireRestart(m, prev) ==
    LET nowConfigured == IsConfigured(m)
    IN  IF (~prev.enabled \/ ~prev.configured) /\ m.isEnabled /\ nowConfigured THEN TRUE
        ELSE IF ~prev.enabled /\ ~m.isEnabled THEN FALSE
        ELSE IF ~prev.configured /\ ~nowConfigured THEN FALSE
        ELSE IF m.isEnabled \/ prev.enabled THEN RelevantSettingsChanged(m, prev)
        ELSE FALSE

\* currentConfig as loadConfiguration returns it
CurrentConfigOf(m) ==
    [isEnabled |-> m.isEnabled, isConfigured |-> IsConfigured(m),
     embedderProvider |-> m.embedderProvider, modelId |-> m.modelId,
     openAiOptions |-> m.openAiOptions, ollamaOptions |-> m.ollamaOptions,
     openAiCompatibleOptions |-> m.openAiCompatibleOptions,
     qdrantUrl |-> m.qdrantUrl, qdrantApiKey |-> m.qdrantApiKey,
     searchMinScore |-> m.searchMinScore]

SetThis(m) ==
    /\ isEnabled' = m.isEnabled
    /\ embedderProvider' = m.embedderProvider
    /\ modelId' = m.modelId
    /\ openAiOptions' = m.openAiOptions
    /\ ollamaOptions' = m.ollamaOptions
    /\ openAiCompatibleOptions' = m.openAiCompatibleOptions
    /\ qdrantUrl' = m.qdrantUrl
    /\ qdrantApiKey' = m.qdrantApiKey
    /\ searchMinScore' = m.searchMinScore

\* field initialisers and the (empty) constructor
InitConfigManager ==
    /\ isEnabled = FALSE
    /\ embedderProvider = "openai"
    /\ modelId = None
    /\ openAiOptions = None
    /\ ollamaOptions = None
    /\ openAiCompatibleOptions = None
    /\ qdrantUrl = Some(DEFAULT_QDRANT_URL)
    /\ qdrantApiKey = None
    /\ searchMinScore = None
    /\ lastLoadedConfig = None
    /\ loadResult = None

\* initialize(): load, return nothing
Initialize ==
    /\ loadResult = None
    /\ \E config \in Configs :
          /\ SetThis(LoadAndSetConfiguration(This, config))
          /\ lastLoadedConfig' = Some(config)
    /\ UNCHANGED loadResult

\* loadConfiguration() when configProvider.getConfig() yields `config`:
\* snapshot, load, compare, return
LoadConfigurationOf(config) ==
    LET previousConfigSnapshot == ConfigSnapshotOf(This)
        loaded == LoadAndSetConfiguration(This, config)
        requiresRestart == DoesConfigChangeRequireRestart(loaded, previousConfigSnapshot)
    IN  /\ SetThis(loaded)
        /\ loadResult' = Some([configSnapshot |-> previousConfigSnapshot,
                               currentConfig |-> CurrentConfigOf(loaded),
                               requiresRestart |-> requiresRestart])
        /\ lastLoadedConfig' = Some(config)

LoadConfiguration ==
    /\ loadResult = None
    /\ \E config \in Configs : LoadConfigurationOf(config)

\* the awaiting caller receives the value loadConfiguration returned
TakeLoadResult ==
    /\ loadResult # None
    /\ loadResult' = None
    /\ UNCHANGED <<isEnabled, embedderProvider, modelId,
                   openAiOptions, ollamaOptions, openAiCompatibleOptions,
                   qdrantUrl, qdrantApiKey, searchMinScore, lastLoadedConfig>>


(***************************************************************************)
(* Part II.  processCaptures, the tag-capture processor                    *)
(***************************************************************************)

VARIABLES
    currentMinComponentLines,   \* the module-level `let`
    pc,                 \* "idle", "forEach" (inside captures.forEach), "returned"
    language, lines,    \* arguments of the running call
    captures,           \* the captures argument, sorted in place by the call
    index,              \* number of captures the forEach callback has handled
    processedLines,     \* Set of line keys, a key `${s}-${e}` kept as <<s, e>>
    formattedOutput,    \* the output text, one record per "\n"-terminated line
    emittedBy,          \* for each output record: the capture that appended it
    result              \* the returned value: None is null

capVars == <<currentMinComponentLines, pc, language, lines, captures, index,
             processedLines, formattedOutput, emittedBy, result>>

DEFAULT_MIN_COMPONENT_LINES_VALUE == 4
\* longest captures array a call receives
MaxCaptures == 2

getMinComponentLines == currentMinComponentLines

\* ---- source lines: the text with its leading white space kept apart ----
SourceLine(indent, text) == [indent |-> indent, text |-> text]
Trim(line) == line.text
LineAt(ls, row) == ls[row + 1]

\* HTML_ELEMENTS.test: /^[^A-Z]*<\/?(?:div|span|button|input|h[1-6]|p|a|img|ul|li|form)\b/
\* on the trimmed line texts that occur in the files below
HTML_ELEMENTS_test(text) ==
    text \in {"<div className={x}>", "<span>hi</span>", "</div>",
              "<button onClick={go}>", "</button>",
              "export function id<a>(v: a): a {"}

NeedsHtmlFiltering(lang) == lang \in {"jsx", "tsx"}

\* mutation: the language is not looked at
IsNotHtmlElement_AnyLanguage(lang, line) == ~HTML_ELEMENTS_test(Trim(line))

IsNotHtmlElement(lang, line) ==
    IF ~NeedsHtmlFiltering(lang) THEN TRUE
    ELSE ~HTML_ELEMENTS_test(Trim(line))

\* ---- syntax nodes and captures ----
\* parent.lastChild: a node ends where its last child ends
ParentNode(s, e) == Some([startRow |-> s, endRow |-> e, lastChildEndRow |-> Some(e)])
SyntaxNode(s, e, text, parent) ==
    [startRow |-> s, endRow |-> e, text |-> text, parent |-> parent]

CaptureNames == {"definition.function", "name.definition.function", "name", "reference.call"}
\* name.includes(sub) for the three substrings the code asks about
Includes(name, sub) ==
    CASE sub = "definition" ->
            name \in {"definition.function", "name.definition.function",
                      "name.definition.header.h1"}
      [] sub = "name" ->
            name \in {"name.definition.function", "name", "name.definition.header.h1"}
      [] sub = "name.definition" ->
            name \in {"name.definition.function", "name.definition.header.h1"}

\* a .tsx file: markup, then a component
TsxLines ==
    << SourceLine(2, "<div className={x}>"),
       SourceLine(4, "<span>hi</span>"),
       SourceLine(4, "text"),
       SourceLine(2, "</div>"),
       SourceLine(0, "const Button = () => ("),
       SourceLine(2, "<button onClick={go}>"),
       SourceLine(2, "</button>"),
       SourceLine(0, ")") >>
TsxNodes ==
    { SyntaxNode(0, 7, "program", None),
      SyntaxNode(0, 3, "element", ParentNode(0, 7)),
      SyntaxNode(0, 0, "div", ParentNode(0, 3)),
      SyntaxNode(4, 7, "declaration", ParentNode(0, 7)),
      SyntaxNode(4, 4, "Button", ParentNode(4, 7)),
      SyntaxNode(5, 6, "element", ParentNode(4, 7)) }

\* a 20-line .ts file: a function over rows 2..11 with a 4-line inner
\* function, a class over rows 13..19 with a 3-line method
TsLines ==
    [r \in 1..20 |->
        CASE r = 1  -> SourceLine(0, "import x from y")
          [] r = 3  -> SourceLine(0, "export function id<a>(v: a): a {")
          [] r = 4  -> SourceLine(2, "function () {")
          [] r = 7  -> SourceLine(2, "}")
          [] r = 12 -> SourceLine(0, "}")
          [] r = 14 -> SourceLine(0, "class Store {")
          [] r = 15 -> SourceLine(2, "get() {")
          [] r = 17 -> SourceLine(2, "}")
          [] r = 20 -> SourceLine(0, "}")
          [] OTHER  -> SourceLine(4, "")]
TsNodes ==
    { SyntaxNode(2, 11, "function", ParentNode(0, 19)),
      SyntaxNode(2, 2, "id", ParentNode(2, 11)),
      SyntaxNode(3, 6, "function", ParentNode(2, 11)),
      SyntaxNode(3, 3, "", ParentNode(3, 6)),          \* a MISSING identifier
      SyntaxNode(13, 19, "class", ParentNode(0, 19)),
      SyntaxNode(14, 16, "method", ParentNode(13, 19)) }

SourceFiles ==
    { [language |-> "tsx", lines |-> TsxLines, nodes |-> TsxNodes],
      [language |-> "ts", lines |-> TsLines, nodes |-> TsNodes] }

CapturesOf(file) == [name : CaptureNames, node : file.nodes]
\* the captures arrays of n captures
CaptureLists(file, n) == [1..n -> CapturesOf(file)]

\* values setMinComponentLines is called with
MinComponentLinesValues == {2, 3, DEFAULT_MIN_COMPONENT_LINES_VALUE}

\* ---- captures.sort((a, b) => a.node.startPosition.row - b.node.startPosition.row) ----
\* Array.prototype.sort is stable
RECURSIVE InsertByStartRow(_, _)
InsertByStartRow(sorted, c) ==
    IF sorted = << >> THEN << c >>
    ELSE IF sorted[Len(sorted)].node.startRow <= c.node.startRow THEN Append(sorted, c)
    ELSE Append(InsertByStartRow(SubSeq(sorted, 1, Len(sorted) - 1), c), sorted[Len(sorted)])

RECURSIVE SortByStartRow(_)
SortByStartRow(caps) ==
    IF caps = << >> THEN << >>
    ELSE InsertByStartRow(SortByStartRow(SubSeq(caps, 1, Len(caps) - 1)), caps[Len(caps)])

\* ---- the forEach callback ----
\* const definitionNode = name.includes("name") ? node.parent : node
DefinitionNode(capture) ==
    IF Includes(capture.name, "name") THEN capture.node.parent
    ELSE Some([startRow |-> capture.node.startRow, endRow |-> capture.node.endRow])

\* mutation: <= instead of <
SpansTooFewLines_OffByOne(lineCount, min) == lineCount <= min

\* lineCount < getMinComponentLines()
SpansTooFewLines(lineCount, min) == lineCount < min

\* mutation: the set of processed keys is never consulted
HasLineKey_Never(processed, lineKey) == FALSE

\* processedLines.has(lineKey)
HasLineKey(processed, lineKey) == lineKey \in processed

\* mutation: the context range is added without asking whether it is there
HasRangeKey_Never(processed, rangeKey) == FALSE

\* processedLines.has(rangeKey)
HasRangeKey(processed, rangeKey) == rangeKey \in processed

\* `${startLine + 1}--${endLine + 1} | ${lines[startLine]}\n`
FormatRecord(ls, startLine, endLine) ==
    [startLine |-> startLine + 1, endLine |-> endLine + 1, headerLine |-> LineAt(ls, startLine)]

\* mutation: the record is appended, its key is not remembered
Emit_KeyNotAdded(st, ls, key, i, asContext) ==
    [processedLines |-> st.processedLines,
     formattedOutput |-> Append(st.formattedOutput, FormatRecord(ls, key[1], key[2])),
     emittedBy |-> Append(st.emittedBy, [capture |-> i, context |-> asContext])]

\* appending a record to formattedOutput and its key to processedLines
Emit(st, ls, key, i, asContext) ==
    [processedLines |-> st.processedLines \cup {key},
     formattedOutput |-> Append(st.formattedOutput, FormatRecord(ls, key[1], key[2])),
     emittedBy |-> Append(st.emittedBy, [capture |-> i, context |-> asContext])]

\* the enclosing context of the capture node, if it is long enough:
\* node.parent.startPosition.row .. node.parent.lastChild.endPosition.row
ContextRange(capture, min) ==
    LET parent == capture.node.parent
    IN  IF parent = None \/ Get(parent).lastChildEndRow = None THEN None
        ELSE LET contextEnd == Get(Get(parent).lastChildEndRow)
                 contextSpan == contextEnd - Get(parent).startRow + 1
             IN  IF contextSpan >= min THEN Some(<<Get(parent).startRow, contextEnd>>)
                 ELSE None

\* one call of the callback on captures[i]; st holds processedLines,
\* formattedOutput and emittedBy
ForEachCallback(capture, i, ls, lang, min, st) ==
    LET definitionNode == DefinitionNode(capture)
    IN
    IF ~Includes(capture.name, "definition") /\ ~Includes(capture.name, "name") THEN st
    ELSE IF definitionNode = None THEN st
    ELSE
    LET startLine == Get(definitionNode).startRow
        endLine == Get(definitionNode).endRow
        lineCount == endLine - startLine + 1
        lineKey == <<startLine, endLine>>
    IN
    IF SpansTooFewLines(lineCount, min) THEN st
    ELSE IF HasLineKey(st.processedLines, lineKey) THEN st
    ELSE IF Includes(capture.name, "name.definition") THEN
        IF ~HasLineKey(st.processedLines, lineKey) /\ capture.node.text # ""
        THEN Emit(st, ls, lineKey, i, FALSE)
        ELSE st
    ELSE IF IsNotHtmlElement(lang, LineAt(ls, startLine)) THEN
        LET withDefinition == Emit(st, ls, lineKey, i, FALSE)
            context == ContextRange(capture, min)
        IN  IF context # None /\ ~HasRangeKey(withDefinition.processedLines, Get(context))
            THEN Emit(withDefinition, ls, Get(context), i, TRUE)
            ELSE withDefinition
    ELSE st

InitParser ==
    /\ currentMinComponentLines = DEFAULT_MIN_COMPONENT_LINES_VALUE
    /\ pc = "idle"
    /\ language = ""
    /\ lines = << >>
    /\ captures = << >>
    /\ index = 0
    /\ processedLines = {}
    /\ formattedOutput = << >>
    /\ emittedBy = << >>
    /\ result = None

SetMinComponentLines ==
    /\ pc = "idle"
    /\ \E value \in MinComponentLinesValues : currentMinComponentLines' = value
    /\ UNCHANGED <<pc, language, lines, captures, index, processedLines,
                   formattedOutput, emittedBy, result>>

\* processCaptures(captures, lines, language) up to the forEach: the empty
\* check, the sort and the fresh locals
CallProcessCaptures ==
    /\ pc = "idle"
    /\ \E file \in SourceFiles : \E n \in 0..MaxCaptures : \E caps \in CaptureLists(file, n) :
          /\ language' = file.language
          /\ lines' = file.lines
          /\ IF Len(caps) = 0
             THEN captures' = caps /\ pc' = "returned"
             ELSE captures' = SortByStartRow(caps) /\ pc' = "forEach"
    /\ index' = 0
    /\ processedLines' = {}
    /\ formattedOutput' = << >>
    /\ emittedBy' = << >>
    /\ result' = None
    /\ UNCHANGED currentMinComponentLines

\* the callback runs on the next capture
ProcessCapture ==
    /\ pc = "forEach"
    /\ index < Len(captures)
    /\ LET st == ForEachCallback(captures[index + 1], index + 1, lines, language,
                                 getMinComponentLines,
                                 [processedLines |-> processedLines,
                                  formattedOutput |-> formattedOutput,
                                  emittedBy |-> emittedBy])
       IN  /\ processedLines' = st.processedLines
           /\ formattedOutput' = st.formattedOutput
           /\ emittedBy' = st.emittedBy
    /\ index' = index + 1
    /\ UNCHANGED <<currentMinComponentLines, pc, language, lines, captures, result>>

\* after the loop: the output, or null when it is empty
ReturnOutput ==
    /\ pc = "forEach"
    /\ index = Len(captures)
    /\ result' = IF Len(formattedOutput) > 0 THEN Some(formattedOutput) ELSE None
    /\ pc' = "returned"
    /\ UNCHANGED <<currentMinComponentLines, language, lines, captures, index,
                   processedLines, formattedOutput, emittedBy>>

\* the caller has the value; the call's arguments and locals are gone
TakeOutput ==
    /\ pc = "returned"
    /\ pc' = "idle"
    /\ language' = ""
    /\ lines' = << >>
    /\ captures' = << >>
    /\ index' = 0
    /\ processedLines' = {}
    /\ formattedOutput' = << >>
    /\ emittedBy' = << >>
    /\ result' = None
    /\ UNCHANGED currentMinComponentLines

(***************************************************************************)
(* Part III.  parseFile, parseSourceCodeDefinitionsForFile and             *)
(* parseSourceCodeForDefinitionsTopLevel                                   *)
(***************************************************************************)

VARIABLES
    parsePc,            \* "idle", "files" (inside the two loops), "returned"
    operation,          \* "forFile" or "topLevel" while a call runs or has returned
    allFiles,           \* what workspace.findFiles returned
    ignoredFiles,       \* the files workspace.shouldIgnore is true for
    throwingFiles,      \* the files whose parsing throws
    markdownFiles, otherFiles,
    languageParsers,    \* the extensions loadRequiredLanguageParsers has an entry for
    fileIndex,          \* files the two loops have handled
    topResult,          \* `result`, one element per appended section
    readFiles,          \* the files fileSystem.readFile was called on
    logged,             \* the files console.log reported a parse error for
    returned            \* the value the call resolved to

parseVars == <<parsePc, operation, allFiles, ignoredFiles, throwingFiles,
               markdownFiles, otherFiles, languageParsers, fileIndex,
               topResult, readFiles, logged, returned>>

\* longest list findFiles returns
MaxFiles == 2

extensions ==
    {".tla", ".js", ".jsx", ".ts", ".vue", ".tsx", ".py", ".rs", ".go", ".c", ".h",
     ".cpp", ".hpp", ".cs", ".rb", ".java", ".php", ".swift", ".sol", ".kt", ".kts",
     ".ex", ".exs", ".el", ".html", ".htm", ".md", ".markdown", ".json", ".css",
     ".rdl", ".ml", ".mli", ".lua", ".scala", ".toml", ".zig", ".elm", ".ejs", ".erb"}

\* ---- the workspace: files directly under dirPath, named in lower case, so
\* that basename, relative(dirPath, .) and toLowerCase leave the names alone ----
Paths == {"a.ts", "b.tsx", "c.md", "d.txt", "e.js"}

extname(path) ==
    CASE path = "a.ts"  -> ".ts"
      [] path = "b.tsx" -> ".tsx"
      [] path = "c.md"  -> ".md"
      [] path = "d.txt" -> ".txt"
      [] path = "e.js"  -> ".js"

\* ext.slice(1)
Slice1(ext) ==
    CASE ext = ".ts"  -> "ts"
      [] ext = ".tsx" -> "tsx"
      [] ext = ".md"  -> "md"
      [] ext = ".txt" -> "txt"
      [] ext = ".js"  -> "js"

IsMarkdown(ext) == ext = ".md" \/ ext = ".markdown"

JsLines ==
    << SourceLine(0, "function run() {"),
       SourceLine(2, "step()"),
       SourceLine(2, "step()"),
       SourceLine(2, "step()"),
       SourceLine(0, "}") >>
MdLines ==
    << SourceLine(0, "# Title"),
       SourceLine(0, ""),
       SourceLine(0, "one"),
       SourceLine(0, "two"),
       SourceLine(0, "three") >>

\* fileContent.split("\n")
LinesOf(path) ==
    CASE path = "a.ts"  -> TsLines
      [] path = "b.tsx" -> TsxLines
      [] path = "c.md"  -> MdLines
      [] path = "e.js"  -> JsLines
      [] OTHER          -> << >>

\* query.captures(tree.rootNode) for the tree-sitter files, parseMarkdown(fileContent)
\* for the markdown file
CapturesIn(path) ==
    CASE path = "a.ts" ->
           << [name |-> "definition.function",
               node |-> SyntaxNode(2, 11, "function", ParentNode(0, 19))],
              [name |-> "name.definition.function",
               node |-> SyntaxNode(2, 2, "id", ParentNode(2, 11))],
              [name |-> "definition.function",
               node |-> SyntaxNode(13, 19, "class", ParentNode(0, 19))] >>
      [] path = "b.tsx" ->
           << [name |-> "definition.function",
               node |-> SyntaxNode(0, 3, "element", ParentNode(0, 7))] >>
      [] path = "c.md" ->
           << [name |-> "name.definition.header.h1",
               node |-> SyntaxNode(0, 0, "Title", ParentNode(0, 4))] >>
      [] path = "e.js" ->
           << [name |-> "name.definition.function",
               node |-> SyntaxNode(0, 0, "run", ParentNode(0, 4))] >>
      [] OTHER -> << >>

\* ---- processCaptures as one call ----
RECURSIVE ForEach(_, _, _, _, _, _)
ForEach(caps, i, ls, lang, min, st) ==
    IF i > Len(caps) THEN st
    ELSE ForEach(caps, i + 1, ls, lang, min,
                 ForEachCallback(caps[i], i, ls, lang, min, st))

processCaptures(caps, ls, lang) ==
    IF Len(caps) = 0 THEN None
    ELSE LET st == ForEach(SortByStartRow(caps), 1, ls, lang, getMinComponentLines,
                           [processedLines |-> {}, formattedOutput |-> << >>,
                            emittedBy |-> << >>])
         IN  IF Len(st.formattedOutput) > 0 THEN Some(st.formattedOutput) ELSE None

\* ---- strings the three functions build ----
\* the text of the definitions of a file
DefinitionsText(records) == [kind |-> "definitions", records |-> records, text |-> << >>]
\* `Unsupported file type: ${filePath}`
UnsupportedFileType(filePath) ==
    [kind |-> "message", records |-> << >>, text |-> <<"Unsupported file type: ", filePath>>]
\* `# ${name}\n${definitions}`
Section(name, definitions) == [name |-> name, definitions |-> definitions]

Undefined == [kind |-> "undefined", sections |-> << >>, text |-> ""]
Message(text) == [kind |-> "message", sections |-> << >>, text |-> text]
Sections(sections) == [kind |-> "sections", sections |-> sections, text |-> ""]
Rejected == [kind |-> "rejected", sections |-> << >>, text |-> ""]

\* ---- parseFile ----
\* mutation: no try/catch around the parse, the error leaves parseFile
ParseFile_NoCatch(filePath, parsers, ignored, throwing) ==
    IF filePath \in ignored THEN [value |-> None, read |-> FALSE, error |-> FALSE, thrown |-> FALSE]
    ELSE IF Slice1(extname(filePath)) \notin parsers
    THEN [value |-> Some(UnsupportedFileType(filePath)), read |-> TRUE,
          error |-> FALSE, thrown |-> FALSE]
    ELSE IF filePath \in throwing
    THEN [value |-> None, read |-> TRUE, error |-> FALSE, thrown |-> TRUE]
    ELSE LET definitions == processCaptures(CapturesIn(filePath), LinesOf(filePath),
                                            Slice1(extname(filePath)))
         IN  [value |-> IF definitions = None THEN None
                        ELSE Some(DefinitionsText(Get(definitions))),
              read |-> TRUE, error |-> FALSE, thrown |-> FALSE]

\* mutation: shouldIgnore is not consulted
ParseFile_IgnoreNotChecked(filePath, parsers, ignored, throwing) ==
    IF Slice1(extname(filePath)) \notin parsers
    THEN [value |-> Some(UnsupportedFileType(filePath)), read |-> TRUE,
          error |-> FALSE, thrown |-> FALSE]
    ELSE IF filePath \in throwing
    THEN [value |-> None, read |-> TRUE, error |-> TRUE, thrown |-> FALSE]
    ELSE LET definitions == processCaptures(CapturesIn(filePath), LinesOf(filePath),
                                            Slice1(extname(filePath)))
         IN  [value |-> IF definitions = None THEN None
                        ELSE Some(DefinitionsText(Get(definitions))),
              read |-> TRUE, error |-> FALSE, thrown |-> FALSE]

\* value: the string or null it resolves to; read: readFile was called;
\* error: a parse error was logged; thrown: the call rejects
ParseFile(filePath, parsers, ignored, throwing) ==
    IF filePath \in ignored THEN [value |-> None, read |-> FALSE, error |-> FALSE, thrown |-> FALSE]
    ELSE IF Slice1(extname(filePath)) \notin parsers
    THEN [value |-> Some(UnsupportedFileType(filePath)), read |-> TRUE,
          error |-> FALSE, thrown |-> FALSE]
    ELSE IF filePath \in throwing
    THEN [value |-> None, read |-> TRUE, error |-> TRUE, thrown |-> FALSE]
    ELSE LET definitions == processCaptures(CapturesIn(filePath), LinesOf(filePath),
                                            Slice1(extname(filePath)))
         IN  [value |-> IF definitions = None THEN None
                        ELSE Some(DefinitionsText(Get(definitions))),
              read |-> TRUE, error |-> FALSE, thrown |-> FALSE]

\* ---- ./languageParser (not part of the source tree at hand): an entry per
\* extension of the given files for which a grammar and a query are there ----
loadRequiredLanguageParsers(files, grammars) ==
    {Slice1(extname(files[i])) : i \in 1..Len(files)} \cap grammars

\* .slice(0, 50)
FilesToParseCap == 50

separateFiles(files) ==
    LET listed == SelectSeq(files, LAMBDA file : extname(file) \in extensions)
        filesToParse == SubSeq(listed, 1, IF Len(listed) < FilesToParseCap
                                          THEN Len(listed) ELSE FilesToParseCap)
    IN  [filesToParse |-> filesToParse,
         remainingFiles |->
            SelectSeq(files, LAMBDA file :
                        \A i \in 1..Len(filesToParse) : filesToParse[i] # file)]

\* ---- parseSourceCodeDefinitionsForFile ----
\* returned: the value the call resolves to; read: the files it read
ParseSourceCodeDefinitionsForFile(filePath, fileExists, grammars, ignored, throwing) ==
    LET ext == extname(filePath)
    IN
    IF ~fileExists
    THEN [returned |-> Message("This file does not exist or you do not have permission to access it."),
          read |-> {}, logged |-> {}]
    ELSE IF ext \notin extensions THEN [returned |-> Undefined, read |-> {}, logged |-> {}]
    ELSE IF IsMarkdown(ext) THEN
        IF filePath \in ignored THEN [returned |-> Undefined, read |-> {}, logged |-> {}]
        ELSE IF filePath \in throwing
        THEN [returned |-> Rejected, read |-> {filePath}, logged |-> {}]
        ELSE LET markdownDefinitions ==
                    processCaptures(CapturesIn(filePath), LinesOf(filePath), "markdown")
             IN  [returned |->
                     IF markdownDefinitions # None
                     THEN Sections(<< Section(filePath,
                                              DefinitionsText(Get(markdownDefinitions))) >>)
                     ELSE Undefined,
                  read |-> {filePath}, logged |-> {}]
    ELSE LET parsers == loadRequiredLanguageParsers(<<filePath>>, grammars)
             parsed == ParseFile(filePath, parsers, ignored, throwing)
         IN  [returned |->
                 IF parsed.thrown THEN Rejected
                 ELSE IF parsed.value # None
                 THEN Sections(<< Section(filePath, Get(parsed.value)) >>)
                 ELSE Undefined,
              read |-> IF parsed.read THEN {filePath} ELSE {},
              logged |-> IF parsed.error THEN {filePath} ELSE {}]

\* ---- inputs ----
Range(seq) == {seq[i] : i \in 1..Len(seq)}
\* lists of n distinct files
FileLists(n) == {files \in [1..n -> Paths] : \A i, j \in 1..n : files[i] = files[j] => i = j}
Grammars == {"ts", "tsx", "js"}

InitParse ==
    /\ parsePc = "idle"
    /\ operation = ""
    /\ allFiles = << >>
    /\ ignoredFiles = {}
    /\ throwingFiles = {}
    /\ markdownFiles = << >>
    /\ otherFiles = << >>
    /\ languageParsers = {}
    /\ fileIndex = 0
    /\ topResult = << >>
    /\ readFiles = {}
    /\ logged = {}
    /\ returned = None

CallDefinitionsForFile ==
    /\ parsePc = "idle"
    /\ \E filePath \in Paths : \E fileExists \in BOOLEAN : \E grammars \in SUBSET Grammars :
       \E ignored \in SUBSET {filePath} : \E throwing \in SUBSET {filePath} :
          LET call == ParseSourceCodeDefinitionsForFile(filePath, fileExists, grammars,
                                                        ignored, throwing)
          IN  /\ allFiles' = <<filePath>>
              /\ ignoredFiles' = ignored
              /\ throwingFiles' = throwing
              /\ languageParsers' = loadRequiredLanguageParsers(<<filePath>>, grammars)
              /\ readFiles' = call.read
              /\ logged' = call.logged
              /\ returned' = Some(call.returned)
    /\ parsePc' = "returned"
    /\ operation' = "forFile"
    /\ UNCHANGED <<markdownFiles, otherFiles, fileIndex, topResult>>

\* parseSourceCodeForDefinitionsTopLevel on a path that does not exist
CallTopLevelNoDirectory ==
    /\ parsePc = "idle"
    /\ parsePc' = "returned"
    /\ operation' = "topLevel"
    /\ returned' = Some(Message("This directory does not exist or you do not have permission to access it."))
    /\ UNCHANGED <<allFiles, ignoredFiles, throwingFiles, markdownFiles, otherFiles,
                   languageParsers, fileIndex, topResult, readFiles, logged>>

\* parseSourceCodeForDefinitionsTopLevel up to the first loop
CallTopLevel ==
    /\ parsePc = "idle"
    /\ \E n \in 0..MaxFiles : \E files \in FileLists(n) :
       \E ignored \in SUBSET Range(files) : \E throwing \in SUBSET Range(files) :
       \E grammars \in SUBSET Grammars :
          LET filesToParse == separateFiles(files).filesToParse
              allowedFilesToParse == SelectSeq(filesToParse, LAMBDA file : file \notin ignored)
              markdown == SelectSeq(allowedFilesToParse, LAMBDA file : IsMarkdown(extname(file)))
              other == SelectSeq(allowedFilesToParse, LAMBDA file : ~IsMarkdown(extname(file)))
          IN  /\ allFiles' = files
              /\ ignoredFiles' = ignored
              /\ throwingFiles' = throwing
              /\ markdownFiles' = markdown
              /\ otherFiles' = other
              /\ languageParsers' = loadRequiredLanguageParsers(other, grammars)
    /\ parsePc' = "files"
    /\ operation' = "topLevel"
    /\ fileIndex' = 0
    /\ topResult' = << >>
    /\ readFiles' = {}
    /\ logged' = {}
    /\ returned' = None

\* one round of `for (const file of markdownFiles)`
ProcessMarkdownFile ==
    /\ parsePc = "files"
    /\ fileIndex < Len(markdownFiles)
    /\ LET file == markdownFiles[fileIndex + 1]
       IN  IF file \in ignoredFiles
           THEN UNCHANGED <<topResult, readFiles, logged>>
           ELSE IF file \in throwingFiles
           THEN /\ readFiles' = readFiles \cup {file}
                /\ logged' = logged \cup {file}
                /\ UNCHANGED topResult
           ELSE LET markdownDefinitions ==
                        processCaptures(CapturesIn(file), LinesOf(file), "markdown")
                IN  /\ readFiles' = readFiles \cup {file}
                    /\ topResult' =
                          IF markdownDefinitions # None
                          THEN Append(topResult,
                                      Section(file, DefinitionsText(Get(markdownDefinitions))))
                          ELSE topResult
                    /\ UNCHANGED logged
    /\ fileIndex' = fileIndex + 1
    /\ UNCHANGED <<parsePc, operation, allFiles, ignoredFiles, throwingFiles,
                   markdownFiles, otherFiles, languageParsers, returned>>

\* one round of `for (const file of otherFiles)`
ProcessOtherFile ==
    /\ parsePc = "files"
    /\ fileIndex >= Len(markdownFiles)
    /\ fileIndex < Len(markdownFiles) + Len(otherFiles)
    /\ LET file == otherFiles[fileIndex - Len(markdownFiles) + 1]
           parsed == ParseFile(file, languageParsers, ignoredFiles, throwingFiles)
       IN  /\ readFiles' = IF parsed.read THEN readFiles \cup {file} ELSE readFiles
           /\ logged' = IF parsed.error THEN logged \cup {file} ELSE logged
           /\ IF parsed.thrown
              THEN /\ returned' = Some(Rejected)
                   /\ parsePc' = "returned"
                   /\ UNCHANGED topResult
              ELSE /\ topResult' = IF parsed.value # None
                                   THEN Append(topResult, Section(file, Get(parsed.value)))
                                   ELSE topResult
                   /\ UNCHANGED <<returned, parsePc>>
    /\ fileIndex' = fileIndex + 1
    /\ UNCHANGED <<operation, allFiles, ignoredFiles, throwingFiles,
                   markdownFiles, otherFiles, languageParsers>>

\* return result ? result : "No source code definitions found."
ReturnTopLevel ==
    /\ parsePc = "files"
    /\ fileIndex = Len(markdownFiles) + Len(otherFiles)
    /\ returned' = Some(IF Len(topResult) > 0 THEN Sections(topResult)
                        ELSE Message("No source code definitions found."))
    /\ parsePc' = "returned"
    /\ UNCHANGED <<operation, allFiles, ignoredFiles, throwingFiles, markdownFiles,
                   otherFiles, languageParsers, fileIndex, topResult, readFiles, logged>>

\* the caller has the value
TakeParseResult ==
    /\ parsePc = "returned"
    /\ parsePc' = "idle"
    /\ operation' = ""
    /\ allFiles' = << >>
    /\ ignoredFiles' = {}
    /\ throwingFiles' = {}
    /\ markdownFiles' = << >>
    /\ otherFiles' = << >>
    /\ languageParsers' = {}
    /\ fileIndex' = 0
    /\ topResult' = << >>
    /\ readFiles' = {}
    /\ logged' = {}
    /\ returned' = None

(***************************************************************************)
(* Part IV.  The indexer state machine (../code-index/manager and its      *)
(* orchestrator, not part of the source tree at hand: modelled from the    *)
(* specification, sections 4.J and 7) driven by CodeIndexConfigManager.    *)
(***************************************************************************)

VARIABLES
    indexerState,       \* "Standby", "Indexing", "Indexed", "Watching", "Error"
    watcherArmed,       \* the file watcher exists and delivers events
    fullRescan,         \* the run of the Indexing state scans the whole workspace
    restartPhase,       \* "stopped": a restart has stopped the indexer and not yet started it
    restartedFrom,      \* the state the last restart signal found the indexer in
    lastStart           \* outcome of the last start: by the caller or by a restart

idxVars == <<indexerState, watcherArmed, fullRescan, restartPhase, restartedFrom, lastStart>>

IndexerStates == {"Standby", "Indexing", "Indexed", "Watching", "Error"}

\* the configurations the settings of an indexed workspace go through
IndexerEmbedderConfigs ==
    [provider : {"ollama"}, model : {Some("nomic-embed-text"), Some("large-1024")},
     apiKey : {None}, baseUrl : {Some(u) : u \in BaseUrls}, dimension : {None}]
    \cup
    [provider : {"openai"}, model : {None},
     apiKey : {Some("key-1")}, baseUrl : {None}, dimension : {None}]
IndexerConfigs ==
    [isEnabled : BOOLEAN, embedder : IndexerEmbedderConfigs,
     qdrantUrl : {None}, qdrantApiKey : {None}, searchMinScore : {None}]

\* get isFeatureEnabled()
isFeatureEnabled == isEnabled

\* mutation: the getter answers for a manager that was configured once
isFeatureConfigured_AlwaysTrue == TRUE

\* get isFeatureConfigured()
isFeatureConfigured == IsConfigured(This)

InitIndexer ==
    /\ indexerState = "Standby"
    /\ watcherArmed = FALSE
    /\ fullRescan = FALSE
    /\ restartPhase = "none"
    /\ restartedFrom = "none"
    /\ lastStart = "none"

\* a settings change: the manager calls configManager.loadConfiguration()
LoadIndexerConfiguration ==
    /\ loadResult = None
    /\ restartPhase = "none"
    /\ \E config \in IndexerConfigs : LoadConfigurationOf(config)
    /\ UNCHANGED idxVars

\* mutation: the watcher survives the restart
StopForRestart_WatcherKept(from) ==
    /\ indexerState' = "Standby"
    /\ UNCHANGED watcherArmed
    /\ fullRescan' = FALSE
    /\ restartPhase' = "stopped"
    /\ restartedFrom' = from

\* first half of a restart: -> Standby, dispose watcher
StopForRestart(from) ==
    /\ indexerState' = "Standby"
    /\ watcherArmed' = FALSE
    /\ fullRescan' = FALSE
    /\ restartPhase' = "stopped"
    /\ restartedFrom' = from

\* the manager receives { requiresRestart } from loadConfiguration
ConsumeRestartSignal ==
    /\ loadResult # None
    /\ loadResult' = None
    /\ IF Get(loadResult).requiresRestart /\ indexerState # "Standby"
       THEN StopForRestart(indexerState) /\ UNCHANGED lastStart
       ELSE UNCHANGED idxVars
    /\ UNCHANGED <<isEnabled, embedderProvider, modelId,
                   openAiOptions, ollamaOptions, openAiCompatibleOptions,
                   qdrantUrl, qdrantApiKey, searchMinScore, lastLoadedConfig>>

\* start: Standby -> Indexing, rejected unless the controller reports
\* enabled and configured
Start(accepted, rejected) ==
    IF isFeatureEnabled /\ isFeatureConfigured
    THEN /\ indexerState' = "Indexing"
         /\ fullRescan' = TRUE
         /\ lastStart' = accepted
    ELSE /\ lastStart' = rejected
         /\ UNCHANGED <<indexerState, fullRescan>>

\* startIndexing() called on an indexer in Standby
StartIndexing ==
    /\ indexerState = "Standby"
    /\ restartPhase = "none"
    /\ Start("accepted", "rejected")
    /\ UNCHANGED <<watcherArmed, restartPhase, restartedFrom>>

\* second half of a restart: -> Indexing with a full rescan
RestartStart ==
    /\ restartPhase = "stopped"
    /\ Start("restarted", "restart rejected")
    /\ restartPhase' = "none"
    /\ UNCHANGED <<watcherArmed, restartedFrom>>

\* finish: the initial scan completes
FinishIndexing ==
    /\ indexerState = "Indexing"
    /\ indexerState' = "Indexed"
    /\ fullRescan' = FALSE
    /\ UNCHANGED <<watcherArmed, restartPhase, restartedFrom, lastStart>>

\* armWatch
ArmWatch ==
    /\ indexerState = "Indexed"
    /\ indexerState' = "Watching"
    /\ watcherArmed' = TRUE
    /\ UNCHANGED <<fullRescan, restartPhase, restartedFrom, lastStart>>

\* a fatal error of any stage; the watcher keeps buffering events
FatalError ==
    /\ indexerState \in {"Indexing", "Watching"}
    /\ indexerState' = "Error"
    /\ fullRescan' = FALSE
    /\ UNCHANGED <<watcherArmed, restartPhase, restartedFrom, lastStart>>

\* stop: Error -> Standby
StopAfterError ==
    /\ indexerState = "Error"
    /\ restartPhase = "none"
    /\ indexerState' = "Standby"
    /\ UNCHANGED <<watcherArmed, fullRescan, restartPhase, restartedFrom, lastStart>>

\* dispose(): valid in any state, terminates watcher and pipeline
Dispose ==
    /\ restartPhase = "none"
    /\ indexerState # "Standby" \/ watcherArmed
    /\ indexerState' = "Standby"
    /\ watcherArmed' = FALSE
    /\ fullRescan' = FALSE
    /\ UNCHANGED <<restartPhase, restartedFrom, lastStart>>

(***************************************************************************)
(* Part V.  The indexing pipeline with its fingerprint manifest, vector    *)
(* store and watcher (../code-index/processors and cache manager, not part *)
(* of the source tree at hand: modelled from the specification, sections   *)
(* 4.D, 4.F, 4.G, 4.H, 5 and 7).  The runs are those of an indexer whose   *)
(* controller is enabled and configured.                                   *)
(***************************************************************************)

VARIABLES
    disk,               \* relPath -> content hash of the file on disk, NoFile when absent
    manifest,           \* relPath -> content hash recorded by the manifest, NoFile when absent
    collectionDim,      \* dimension of the workspace's collection, 0 before it exists
    recreated,          \* ensureCollection recreated the collection for the current run
    runPhase,           \* "idle", "running"
    runKind,            \* "none", "full", "incremental"
    seen,               \* relPath -> hash the scan of the current run computed, Unseen outside its input
    fileStage,          \* relPath -> "none", "delta", "chunked", "skipped", "written", "toDelete", "deleted"
    chunkStage,         \* chunk -> "none", "queued", "embedded", "upserted", "dropped"
    lastOutcome,        \* "none", "ok", "error": how the last run ended
    watching,           \* the watcher is armed
    pending,            \* paths of the watcher's pending delta
    editsInRun,         \* number of file events since the current run began
    prevSeen,           \* seen of the last run that ended
    prevStage           \* fileStage at the end of the last run that ended

pipeVars == <<disk, manifest, collectionDim, recreated, runPhase, runKind, seen,
              fileStage, chunkStage, lastOutcome, watching, pending, editsInRun,
              prevSeen, prevStage>>

\* file events delivered while one run is in progress
MaxEditsInRun == 1

NoFile == "absent"
Unseen == "unseen"

IndexedFiles == {"f1", "f2"}

\* the contents a file of the workspace goes through
ContentsOf(f) == IF f = "f1" THEN {"h1", "h2"} ELSE {NoFile, "h1"}

\* the chunks the chunk stage cuts a file into
ChunksOf(f) == IF f = "f1" THEN {<<"f1", 1>>, <<"f1", 2>>} ELSE {<<"f2", 1>>}
Chunks == UNION {ChunksOf(f) : f \in IndexedFiles}

\* dimensions of the models of the active provider
Dimensions == {768, 1024}

\* 4.D: added = { p in S : p not in M }
added(S, M, input) == {p \in input : S[p] # NoFile /\ M[p] = NoFile}

\* mutation: every scanned file that has a manifest entry counts as modified
modified_IgnoresManifest(S, M, input) ==
    {p \in input : S[p] # NoFile /\ M[p] # NoFile}

\* 4.D: modified = { p in S : p in M /\ M[p] # hash(p) }
modified(S, M, input) ==
    {p \in input : S[p] # NoFile /\ M[p] # NoFile /\ M[p] # S[p]}

\* 4.D: deleted = { p in M : p not in S }
deleted(S, M, input) == {p \in input : S[p] = NoFile /\ M[p] # NoFile}

\* 4.F ensureCollection(dim): a collection of another dimension is deleted
\* and recreated
MustRecreate(dim) == collectionDim # 0 /\ collectionDim # dim

InitPipeline ==
    /\ disk = [f \in IndexedFiles |-> "h1"]
    /\ manifest = [f \in IndexedFiles |-> NoFile]
    /\ collectionDim = 0
    /\ recreated = FALSE
    /\ runPhase = "idle"
    /\ runKind = "none"
    /\ seen = [f \in IndexedFiles |-> Unseen]
    /\ fileStage = [f \in IndexedFiles |-> "none"]
    /\ chunkStage = [c \in Chunks |-> "none"]
    /\ lastOutcome = "none"
    /\ watching = FALSE
    /\ pending = {}
    /\ editsInRun = 0
    /\ prevSeen = [f \in IndexedFiles |-> Unseen]
    /\ prevStage = [f \in IndexedFiles |-> "none"]

\* mutation: the new delta takes the place of the pending one
EditFile_PendingReplaced(f) ==
    /\ runPhase = "running" => editsInRun < MaxEditsInRun
    /\ \E h \in ContentsOf(f) \ {disk[f]} : disk' = [disk EXCEPT ![f] = h]
    /\ pending' = IF watching THEN {f} ELSE pending
    /\ editsInRun' = IF runPhase = "running" THEN editsInRun + 1 ELSE editsInRun
    /\ UNCHANGED <<manifest, collectionDim, recreated, runPhase, runKind, seen,
                   fileStage, chunkStage, lastOutcome, watching, prevSeen, prevStage>>

\* a file of the workspace is created, modified or deleted; an armed watcher
\* merges the path into its pending delta (4.H)
EditFile(f) ==
    /\ runPhase = "running" => editsInRun < MaxEditsInRun
    /\ \E h \in ContentsOf(f) \ {disk[f]} : disk' = [disk EXCEPT ![f] = h]
    /\ pending' = IF watching THEN pending \cup {f} ELSE pending
    /\ editsInRun' = IF runPhase = "running" THEN editsInRun + 1 ELSE editsInRun
    /\ UNCHANGED <<manifest, collectionDim, recreated, runPhase, runKind, seen,
                   fileStage, chunkStage, lastOutcome, watching, prevSeen, prevStage>>

\* the scan of a run over its input and the change computation of 4.D
\* against the manifest M
BeginRun(kind, input, M) ==
    LET S == [f \in IndexedFiles |-> IF f \in input THEN disk[f] ELSE Unseen]
        toProcess == added(S, M, input) \cup modified(S, M, input)
        toDelete == deleted(S, M, input)
    IN  /\ runPhase' = "running"
        /\ runKind' = kind
        /\ seen' = S
        /\ fileStage' = [f \in IndexedFiles |->
                           IF f \in toProcess THEN "delta"
                           ELSE IF f \in toDelete THEN "toDelete" ELSE "none"]
        /\ editsInRun' = 0
        /\ UNCHANGED <<disk, chunkStage, lastOutcome, prevSeen, prevStage>>

\* start -> Indexing: ensureCollection(dim), then a run over the full scan;
\* a recreated collection is followed by a full reindex (7,
\* DimensionMismatch), the entries of the manifest being discarded
BeginFullRun ==
    /\ runPhase = "idle"
    /\ \E dim \in Dimensions :
          /\ collectionDim' = dim
          /\ recreated' = MustRecreate(dim)
          /\ manifest' = IF MustRecreate(dim)
                         THEN [f \in IndexedFiles |-> NoFile] ELSE manifest
          /\ watching' = IF MustRecreate(dim) THEN FALSE ELSE watching
          /\ pending' = IF MustRecreate(dim) THEN {} ELSE pending
          /\ BeginRun("full", IndexedFiles, manifest')

\* Watching: the watcher feeds the pipeline with its pending delta once no
\* run is in progress (4.H)
BeginIncrementalRun ==
    /\ runPhase = "idle"
    /\ watching
    /\ lastOutcome = "ok"
    /\ pending # {}
    /\ pending' = {}
    /\ recreated' = FALSE
    /\ BeginRun("incremental", pending, manifest)
    /\ UNCHANGED <<manifest, collectionDim, watching>>

\* chunk stage: a file of the delta is cut into its chunks
ChunkFile(f) ==
    /\ runPhase = "running"
    /\ fileStage[f] = "delta"
    /\ fileStage' = [fileStage EXCEPT ![f] = "chunked"]
    /\ chunkStage' = [c \in Chunks |-> IF c \in ChunksOf(f) THEN "queued" ELSE chunkStage[c]]
    /\ UNCHANGED <<disk, manifest, collectionDim, recreated, runPhase, runKind, seen,
                   lastOutcome, watching, pending, editsInRun, prevSeen, prevStage>>

\* chunk stage: a file that fails to chunk is skipped (4.G)
ChunkFails(f) ==
    /\ runPhase = "running"
    /\ fileStage[f] = "delta"
    /\ fileStage' = [fileStage EXCEPT ![f] = "skipped"]
    /\ UNCHANGED <<disk, manifest, collectionDim, recreated, runPhase, runKind, seen,
                   chunkStage, lastOutcome, watching, pending, editsInRun,
                   prevSeen, prevStage>>

\* embed stage: the batch of a chunk is embedded
EmbedChunk(c) ==
    /\ runPhase = "running"
    /\ chunkStage[c] = "queued"
    /\ chunkStage' = [chunkStage EXCEPT ![c] = "embedded"]
    /\ UNCHANGED <<disk, manifest, collectionDim, recreated, runPhase, runKind, seen,
                   fileStage, lastOutcome, watching, pending, editsInRun,
                   prevSeen, prevStage>>

\* embed stage: a batch that fails to embed after retries is dropped from
\* the run (4.G, EmbedPermanent)
EmbedFails(c) ==
    /\ runPhase = "running"
    /\ chunkStage[c] = "queued"
    /\ chunkStage' = [chunkStage EXCEPT ![c] = "dropped"]
    /\ UNCHANGED <<disk, manifest, collectionDim, recreated, runPhase, runKind, seen,
                   fileStage, lastOutcome, watching, pending, editsInRun,
                   prevSeen, prevStage>>

\* upsert stage: the vector of a chunk is upserted
UpsertChunk(c) ==
    /\ runPhase = "running"
    /\ chunkStage[c] = "embedded"
    /\ chunkStage' = [chunkStage EXCEPT ![c] = "upserted"]
    /\ UNCHANGED <<disk, manifest, collectionDim, recreated, runPhase, runKind, seen,
                   fileStage, lastOutcome, watching, pending, editsInRun,
                   prevSeen, prevStage>>

\* mutation: the manifest stage waits for the first upsert of the file
AllChunksUpserted_FirstUpsert(f) ==
    \E c \in ChunksOf(f) : chunkStage[c] = "upserted"

\* the file's chunks have all been durably upserted
AllChunksUpserted(f) ==
    \A c \in ChunksOf(f) : chunkStage[c] = "upserted"

\* manifest stage: after a file's chunks have all been durably upserted,
\* update the manifest entry for that file
UpdateManifest(f) ==
    /\ runPhase = "running"
    /\ fileStage[f] = "chunked"
    /\ AllChunksUpserted(f)
    /\ manifest' = [manifest EXCEPT ![f] = seen[f]]
    /\ fileStage' = [fileStage EXCEPT ![f] = "written"]
    /\ UNCHANGED <<disk, collectionDim, recreated, runPhase, runKind, seen,
                   chunkStage, lastOutcome, watching, pending, editsInRun,
                   prevSeen, prevStage>>

\* a deleted file: deleteByFilePath, and its manifest entry goes
DeleteVectors(f) ==
    /\ runPhase = "running"
    /\ fileStage[f] = "toDelete"
    /\ manifest' = [manifest EXCEPT ![f] = NoFile]
    /\ fileStage' = [fileStage EXCEPT ![f] = "deleted"]
    /\ UNCHANGED <<disk, collectionDim, recreated, runPhase, runKind, seen,
                   chunkStage, lastOutcome, watching, pending, editsInRun,
                   prevSeen, prevStage>>

\* the run is over: what it scanned and how far each file came is kept,
\* the work queued in the stages is dropped
EndRun(outcome) ==
    /\ runPhase' = "idle"
    /\ runKind' = "none"
    /\ recreated' = FALSE
    /\ lastOutcome' = outcome
    /\ prevSeen' = seen
    /\ prevStage' = fileStage
    /\ seen' = [f \in IndexedFiles |-> Unseen]
    /\ fileStage' = [f \in IndexedFiles |-> "none"]
    /\ chunkStage' = [c \in Chunks |-> "none"]
    /\ editsInRun' = 0

\* mutation: the aborted run records the hashes it scanned
AbortRun_FlushesManifest ==
    /\ runPhase = "running"
    /\ EndRun("error")
    /\ manifest' = [f \in IndexedFiles |->
                      IF fileStage[f] \in {"delta", "chunked"} THEN seen[f] ELSE manifest[f]]
    /\ UNCHANGED <<disk, collectionDim, watching, pending>>

\* a vector-store failure (VectorStorePermanent) or an IOError aborts the
\* run: state -> Error, no manifest mutation (4.G, 7)
AbortRun ==
    /\ runPhase = "running"
    /\ EndRun("error")
    /\ UNCHANGED <<disk, manifest, collectionDim, watching, pending>>

\* nothing of the file is left in the stages
FileSettled(f) ==
    \/ fileStage[f] \in {"none", "skipped", "written", "deleted"}
    \/ /\ fileStage[f] = "chunked"
       /\ \A c \in ChunksOf(f) : chunkStage[c] \in {"upserted", "dropped"}
       /\ \E c \in ChunksOf(f) : chunkStage[c] = "dropped"

BatchDropped == \E c \in Chunks : chunkStage[c] = "dropped"

\* the run drains: finish (-> Indexed, armWatch -> Watching), or Error when
\* a batch was dropped (7, EmbedPermanent)
CompleteRun ==
    /\ runPhase = "running"
    /\ \A f \in IndexedFiles : FileSettled(f)
    /\ EndRun(IF BatchDropped THEN "error" ELSE "ok")
    /\ watching' = IF BatchDropped THEN watching ELSE TRUE
    /\ UNCHANGED <<disk, manifest, collectionDim, pending>>

vars == <<cfgVars, capVars, parseVars, idxVars, pipeVars>>

Init == InitConfigManager /\ InitParser /\ InitParse /\ InitIndexer /\ InitPipeline

\* the configuration manager on its own
Next ==
    \/ Initialize /\ UNCHANGED <<capVars, parseVars, idxVars, pipeVars>>
    \/ LoadConfiguration /\ UNCHANGED <<capVars, parseVars, idxVars, pipeVars>>
    \/ TakeLoadResult /\ UNCHANGED <<capVars, parseVars, idxVars, pipeVars>>

Spec == Init /\ [][Next]_vars

\* the tag-capture processor on its own
NextCaptures ==
    \/ SetMinComponentLines /\ UNCHANGED <<cfgVars, parseVars, idxVars, pipeVars>>
    \/ CallProcessCaptures /\ UNCHANGED <<cfgVars, parseVars, idxVars, pipeVars>>
    \/ ProcessCapture /\ UNCHANGED <<cfgVars, parseVars, idxVars, pipeVars>>
    \/ ReturnOutput /\ UNCHANGED <<cfgVars, parseVars, idxVars, pipeVars>>
    \/ TakeOutput /\ UNCHANGED <<cfgVars, parseVars, idxVars, pipeVars>>

SpecCaptures == Init /\ [][NextCaptures]_vars

\* the definition listing of files and directories
NextParse ==
    \/ CallDefinitionsForFile /\ UNCHANGED <<cfgVars, capVars, idxVars, pipeVars>>
    \/ CallTopLevelNoDirectory /\ UNCHANGED <<cfgVars, capVars, idxVars, pipeVars>>
    \/ CallTopLevel /\ UNCHANGED <<cfgVars, capVars, idxVars, pipeVars>>
    \/ ProcessMarkdownFile /\ UNCHANGED <<cfgVars, capVars, idxVars, pipeVars>>
    \/ ProcessOtherFile /\ UNCHANGED <<cfgVars, capVars, idxVars, pipeVars>>
    \/ ReturnTopLevel /\ UNCHANGED <<cfgVars, capVars, idxVars, pipeVars>>
    \/ TakeParseResult /\ UNCHANGED <<cfgVars, capVars, idxVars, pipeVars>>

SpecParse == Init /\ [][NextParse]_vars

\* the indexer and its controller
NextIndexer ==
    \/ LoadIndexerConfiguration /\ UNCHANGED <<capVars, parseVars, pipeVars>>
    \/ ConsumeRestartSignal /\ UNCHANGED <<capVars, parseVars, pipeVars>>
    \/ StartIndexing /\ UNCHANGED <<cfgVars, capVars, parseVars, pipeVars>>
    \/ RestartStart /\ UNCHANGED <<cfgVars, capVars, parseVars, pipeVars>>
    \/ FinishIndexing /\ UNCHANGED <<cfgVars, capVars, parseVars, pipeVars>>
    \/ ArmWatch /\ UNCHANGED <<cfgVars, capVars, parseVars, pipeVars>>
    \/ FatalError /\ UNCHANGED <<cfgVars, capVars, parseVars, pipeVars>>
    \/ StopAfterError /\ UNCHANGED <<cfgVars, capVars, parseVars, pipeVars>>
    \/ Dispose /\ UNCHANGED <<cfgVars, capVars, parseVars, pipeVars>>

SpecIndexer == Init /\ [][NextIndexer]_vars

\* the pipeline, its manifest and the watcher
NextPipeline ==
    \/ (\E f \in IndexedFiles : EditFile(f)) /\ UNCHANGED <<cfgVars, capVars, parseVars, idxVars>>
    \/ BeginFullRun /\ UNCHANGED <<cfgVars, capVars, parseVars, idxVars>>
    \/ BeginIncrementalRun /\ UNCHANGED <<cfgVars, capVars, parseVars, idxVars>>
    \/ (\E f \in IndexedFiles : ChunkFile(f)) /\ UNCHANGED <<cfgVars, capVars, parseVars, idxVars>>
    \/ (\E f \in IndexedFiles : ChunkFails(f)) /\ UNCHANGED <<cfgVars, capVars, parseVars, idxVars>>
    \/ (\E c \in Chunks : EmbedChunk(c)) /\ UNCHANGED <<cfgVars, capVars, parseVars, idxVars>>
    \/ (\E c \in Chunks : EmbedFails(c)) /\ UNCHANGED <<cfgVars, capVars, parseVars, idxVars>>
    \/ (\E c \in Chunks : UpsertChunk(c)) /\ UNCHANGED <<cfgVars, capVars, parseVars, idxVars>>
    \/ (\E f \in IndexedFiles : UpdateManifest(f)) /\ UNCHANGED <<cfgVars, capVars, parseVars, idxVars>>
    \/ (\E f \in IndexedFiles : DeleteVectors(f)) /\ UNCHANGED <<cfgVars, capVars, parseVars, idxVars>>
    \/ AbortRun /\ UNCHANGED <<cfgVars, capVars, parseVars, idxVars>>
    \/ CompleteRun /\ UNCHANGED <<cfgVars, capVars, parseVars, idxVars>>

SpecPipeline == Init /\ [][NextPipeline]_vars

(***************************************************************************)
(* Properties of the restart controller.  In a state where loadResult is   *)
(* defined, loadConfiguration has just returned: Prev is the snapshot it   *)
(* took before loading and This is the manager after loading.              *)
(***************************************************************************)
Returned == loadResult # None
Prev == Get(loadResult).configSnapshot
RequiresRestart == Get(loadResult).requiresRestart

BothDisabled == ~Prev.enabled /\ ~isEnabled
BothUnconfigured == ~Prev.configured /\ ~IsConfigured(This)
BothReady == Prev.enabled /\ Prev.configured /\ isEnabled /\ IsConfigured(This)

PrevResolvedModelId == OrElse(Prev.modelId, getDefaultModelId(Prev.embedderProvider))
CurResolvedModelId == OrElse(modelId, getDefaultModelId(embedderProvider))
PrevTableDimension == getModelDimension(Prev.embedderProvider, PrevResolvedModelId)
CurTableDimension == getModelDimension(embedderProvider, CurResolvedModelId)
SameProviderAndModel ==
    Prev.embedderProvider = embedderProvider /\ PrevResolvedModelId = CurResolvedModelId

\* (1) transition to enabled and configured
BecameReady == (~Prev.enabled \/ ~Prev.configured) /\ isEnabled /\ IsConfigured(This)
\* (2)
ProviderChanged == Prev.embedderProvider # embedderProvider
\* (3) the resolved dimension: the explicit one for openai-compatible, the
\* model table's for the others (an unresolvable one of a changed model counts)
ResolvedDimensionChanged ==
    IF embedderProvider = "openai-compatible"
    THEN Prev.openAiCompatibleModelDimension # CompatModelDimensionOf(This)
    ELSE /\ ~SameProviderAndModel
         /\ (PrevTableDimension = None \/ CurTableDimension = None
                \/ PrevTableDimension # CurTableDimension)
\* (4) credentials / endpoint of the active provider
ActiveCredentialsChanged ==
    \/ embedderProvider = "openai" /\ Prev.openAiKey # OrElse(OpenAiApiKeyOf(This), "")
    \/ embedderProvider = "ollama" /\ Prev.ollamaBaseUrl # OrElse(OllamaBaseUrlOf(This), "")
    \/ /\ embedderProvider = "openai-compatible"
       /\ \/ Prev.openAiCompatibleBaseUrl # OrElse(CompatBaseUrlOf(This), "")
          \/ Prev.openAiCompatibleApiKey # OrElse(CompatApiKeyOf(This), "")
          \/ Prev.openAiCompatibleModelDimension # CompatModelDimensionOf(This)
\* (5)
VectorStoreChanged ==
    Prev.qdrantUrl # OrElse(qdrantUrl, "") \/ Prev.qdrantApiKey # OrElse(qdrantApiKey, "")

\* C1: loadConfiguration reports requiresRestart exactly when one of (1)..(5)
\* holds, and never when both sides are disabled or both are unconfigured.
C1_RestartIffListedChange ==
    Returned =>
        (RequiresRestart <=>
            /\ ~BothDisabled
            /\ ~BothUnconfigured
            /\ \/ BecameReady
               \/ ProviderChanged
               \/ ResolvedDimensionChanged
               \/ ActiveCredentialsChanged
               \/ VectorStoreChanged)

\* C2: in every reachable state the snapshot of the manager compared with the
\* manager itself needs no restart, and a loadConfiguration that reads the
\* configuration the previous load read returns requiresRestart = false.
C2_ReflexiveFalse == ~DoesConfigChangeRequireRestart(This, ConfigSnapshotOf(This))
C2_SameConfigReload ==
    (loadResult = None /\ loadResult' # None /\ lastLoadedConfig' = lastLoadedConfig)
        => ~Get(loadResult').requiresRestart
C2_Reflexive == []C2_ReflexiveFalse /\ [][C2_SameConfigReload]_vars
C2_Witness ==
    /\ Returned
    /\ Prev = ConfigSnapshotOf(This)
    /\ BothReady
    /\ CurTableDimension = None
    /\ ~RequiresRestart

\* C3: both disabled, or both unconfigured: no restart, whatever else differs.
C3_NoRestartWhenBothOff ==
    Returned /\ (BothDisabled \/ BothUnconfigured) => ~RequiresRestart
C3_Witness ==
    /\ Returned
    /\ BothUnconfigured
    /\ Prev.enabled /\ isEnabled
    /\ ProviderChanged
    /\ VectorStoreChanged
    /\ ~RequiresRestart

\* C4 as stated: both sides enabled and configured and one of the two
\* dimensions unresolvable: restart.
C4_UnresolvableAlwaysRestarts ==
    Returned /\ BothReady /\ (PrevTableDimension = None \/ CurTableDimension = None)
        => RequiresRestart
\* C4 amended: ... and the (provider, model) pair is not the same on both sides.
C4_UnresolvableChangedModelRestarts ==
    Returned /\ BothReady /\ ~SameProviderAndModel
             /\ (PrevTableDimension = None \/ CurTableDimension = None)
        => RequiresRestart
C4_Witness ==
    /\ Returned
    /\ BothReady
    /\ ~ProviderChanged
    /\ ~SameProviderAndModel
    /\ PrevTableDimension # None /\ CurTableDimension = None
    /\ ~ActiveCredentialsChanged /\ ~VectorStoreChanged
    /\ RequiresRestart

\* C5: openai-compatible on both sides, enabled and configured, with the same
\* base URL, API key, explicit dimension and vector store: no restart, even
\* when the model id changed.
C5_CompatibleModelIdAloneNoRestart ==
    Returned /\ BothReady
             /\ Prev.embedderProvider = "openai-compatible"
             /\ embedderProvider = "openai-compatible"
             /\ Prev.openAiCompatibleModelDimension # None
             /\ ~ActiveCredentialsChanged
             /\ ~VectorStoreChanged
        => ~RequiresRestart

\* C6: the previous load left the manager enabled and configured; this load
\* sees the same provider and credentials and a model whose resolved
\* dimension is another one: requiresRestart is true.
C6_DimensionChangeRestarts ==
    Returned /\ Prev.enabled /\ Prev.configured
             /\ ~ProviderChanged
             /\ ~ActiveCredentialsChanged
             /\ PrevTableDimension # None /\ CurTableDimension # None
             /\ PrevTableDimension # CurTableDimension
        => RequiresRestart
C6_Witness ==
    /\ Returned
    /\ BothReady
    /\ Prev.embedderProvider = "ollama" /\ embedderProvider = "ollama"
    /\ Prev.modelId = Some("nomic-embed-text")
    /\ CurTableDimension = Some(1024)
    /\ ~ActiveCredentialsChanged /\ ~VectorStoreChanged
    /\ RequiresRestart

(***************************************************************************)
(* Properties of processCaptures.  Captures 1..index of the sorted array   *)
(* have been handled; record k of formattedOutput was appended by capture  *)
(* emittedBy[k].capture, as its definition or as its enclosing context.    *)
(***************************************************************************)
Records == 1..Len(formattedOutput)
Handled == 1..index
\* the 0-based range a record was formatted from
RangeOf(k) == <<formattedOutput[k].startLine - 1, formattedOutput[k].endLine - 1>>
SpanOf(k) == formattedOutput[k].endLine - formattedOutput[k].startLine + 1

NameOf(j) == captures[j].name
\* the capture names a definition and has a definition node
Definitional(j) ==
    /\ Includes(NameOf(j), "definition") \/ Includes(NameOf(j), "name")
    /\ DefinitionNode(captures[j]) # None
DefRange(j) ==
    <<Get(DefinitionNode(captures[j])).startRow, Get(DefinitionNode(captures[j])).endRow>>
DefSpan(j) == DefRange(j)[2] - DefRange(j)[1] + 1
FirstLineIsHtml(j) == HTML_ELEMENTS_test(Trim(LineAt(lines, DefRange(j)[1])))
IsNameDefinition(j) == Includes(NameOf(j), "name.definition")
\* dropped by the HTML-element filter or for an empty component name
DroppedByContentFilter(j) ==
    IF IsNameDefinition(j) THEN captures[j].node.text = ""
    ELSE NeedsHtmlFiltering(language) /\ FirstLineIsHtml(j)
EmittedDefinition(j) == \E k \in Records : emittedBy[k] = [capture |-> j, context |-> FALSE]
EmittedContext(j) == \E k \in Records : emittedBy[k] = [capture |-> j, context |-> TRUE]
Recorded(range) == \E k \in Records : RangeOf(k) = range
\* the range was recorded before capture j was handled
RecordedBefore(j, range) ==
    \E k \in Records : emittedBy[k].capture < j /\ RangeOf(k) = range
\* capture j passes the name, min-lines, dedup and content filters
Survives(j) ==
    /\ Definitional(j)
    /\ DefSpan(j) >= currentMinComponentLines
    /\ ~RecordedBefore(j, DefRange(j))
    /\ ~DroppedByContentFilter(j)
HasParentContext(j) ==
    /\ captures[j].node.parent # None
    /\ Get(captures[j].node.parent).lastChildEndRow # None
ParentContext(j) ==
    <<Get(captures[j].node.parent).startRow,
      Get(Get(captures[j].node.parent).lastChildEndRow)>>
ParentContextSpan(j) == ParentContext(j)[2] - ParentContext(j)[1] + 1

\* C7: every record, definition or context, ends at or after its start line
\* and spans at least the current MIN_COMPONENT_LINES lines; a definition of
\* exactly that many lines, not dropped by another filter, is in the output.
C7_MinComponentLines ==
    /\ \A k \in Records :
          /\ formattedOutput[k].endLine >= formattedOutput[k].startLine
          /\ SpanOf(k) >= currentMinComponentLines
    /\ \A j \in Handled :
          (Definitional(j) /\ DefSpan(j) = currentMinComponentLines
              /\ ~DroppedByContentFilter(j))
          => Recorded(DefRange(j))
C7_Witness ==
    /\ pc = "returned"
    /\ currentMinComponentLines = DEFAULT_MIN_COMPONENT_LINES_VALUE
    /\ \E j \in Handled :
          /\ Definitional(j) /\ DefSpan(j) = currentMinComponentLines - 1
          /\ ~Recorded(DefRange(j))
    /\ \E j \in Handled :
          /\ Definitional(j) /\ DefSpan(j) = currentMinComponentLines
          /\ EmittedDefinition(j)
          /\ EmittedContext(j)

NoDuplicateRanges ==
    \A k1, k2 \in Records : RangeOf(k1) = RangeOf(k2) => k1 = k2

\* C8 as stated: no two records share a range, and the record of a range is
\* the one of the first capture, in processing order, that has that range.
C8_FirstCaptureWithRangeWins ==
    /\ NoDuplicateRanges
    /\ \A k \in Records : \A j \in Handled :
          (Definitional(j) /\ DefRange(j) = RangeOf(k)
              /\ \A j2 \in 1..(j - 1) : ~(Definitional(j2) /\ DefRange(j2) = RangeOf(k)))
          => emittedBy[k].capture = j
\* C8 amended: no two records share a range, and every capture with that
\* range handled before the one that appended the record was dropped by the
\* HTML-element or the empty-name filter.
C8_FirstSurvivingCaptureWins ==
    /\ NoDuplicateRanges
    /\ \A k \in Records : \A j \in 1..(emittedBy[k].capture - 1) :
          (Definitional(j) /\ DefRange(j) = RangeOf(k)) => DroppedByContentFilter(j)
C8_Witness ==
    /\ pc = "returned"
    /\ \E j1, j2 \in Handled :
          /\ j1 < j2
          /\ Definitional(j1) /\ Definitional(j2)
          /\ DefRange(j1) = DefRange(j2)
          /\ NameOf(j1) # NameOf(j2)
          /\ ~DroppedByContentFilter(j1) /\ ~DroppedByContentFilter(j2)
          /\ EmittedDefinition(j1)
          /\ ~EmittedDefinition(j2)

\* "the filter drops nothing": every handled definition of enough lines that
\* has a component name is in the output
NothingDroppedForHtml ==
    \A j \in Handled :
        (Definitional(j) /\ DefSpan(j) >= currentMinComponentLines
            /\ ~(IsNameDefinition(j) /\ captures[j].node.text = ""))
        => Recorded(DefRange(j))

ParentContextToAdd(j) ==
    /\ HasParentContext(j)
    /\ ParentContextSpan(j) >= currentMinComponentLines
    /\ ParentContext(j) # DefRange(j)
    /\ ~RecordedBefore(j, ParentContext(j))

\* C10 as stated: a surviving name.* capture also emits its enclosing parent
\* range exactly when that range is new and long enough; no other capture does.
C10_ParentRangeForNameCaptures ==
    \A j \in Handled :
        EmittedContext(j) <=>
            (Includes(NameOf(j), "name") /\ Survives(j) /\ ParentContextToAdd(j))
\* C10 amended: the captures that do so are the surviving ones that are not
\* name.definition.* (definition.* and plain name captures).
C10_ParentRangeForOtherCaptures ==
    \A j \in Handled :
        EmittedContext(j) <=>
            (~IsNameDefinition(j) /\ Survives(j) /\ ParentContextToAdd(j))
C10_Witness ==
    /\ pc = "returned"
    /\ \E j \in Handled :
          /\ NameOf(j) = "definition.function"
          /\ EmittedDefinition(j) /\ EmittedContext(j)
    /\ \E j \in Handled :
          /\ IsNameDefinition(j)
          /\ EmittedDefinition(j) /\ ~EmittedContext(j)
          /\ HasParentContext(j)

\* step 8 of the tag-capture algorithm: startLine ascending, ties by endLine
\* descending
SortedOutermostFirst(out) ==
    \A k1, k2 \in 1..Len(out) :
        k1 < k2 =>
            \/ out[k1].startLine < out[k2].startLine
            \/ /\ out[k1].startLine = out[k2].startLine
               /\ out[k1].endLine >= out[k2].endLine

\* C11: the records processCaptures returns are sorted by startLine ascending,
\* ties broken by endLine descending, so that an outer definition precedes
\* the definitions nested in it.
C11_OutputSorted ==
    pc = "returned" => SortedOutermostFirst(formattedOutput)

RangesShareALine(r1, r2) == r1[1] <= r2[2] /\ r2[1] <= r1[2]

\* C12 as stated: the line ranges of the records emitted for a file are
\* pairwise disjoint, no two of them share a line.
C12_RangesPairwiseDisjoint ==
    \A k1, k2 \in Records :
        k1 # k2 => ~RangesShareALine(RangeOf(k1), RangeOf(k2))
\* C12 amended: the line ranges of the records emitted for a file are
\* pairwise distinct, each range that was recorded is emitted exactly once;
\* distinct ranges may nest or overlap.
C12_RangesPairwiseDistinct ==
    /\ \A k1, k2 \in Records : k1 # k2 => RangeOf(k1) # RangeOf(k2)
    /\ processedLines = {RangeOf(k) : k \in Records}
    /\ Cardinality(processedLines) = Len(formattedOutput)
C12_Witness ==
    /\ pc = "returned"
    /\ \E k1, k2 \in Records :
          /\ k1 # k2
          /\ RangesShareALine(RangeOf(k1), RangeOf(k2))
    /\ \E j \in Handled :
          /\ ~IsNameDefinition(j)
          /\ EmittedDefinition(j)
          /\ HasParentContext(j)
          /\ RecordedBefore(j, ParentContext(j))
          /\ ~EmittedContext(j)

\* the line "<startLine>--<endLine> | <headerLine>" of an internal range (s, e)
Rendered(s, e) == [startLine |-> s + 1, endLine |-> e + 1, headerLine |-> lines[s + 1]]
\* every record renders the 0-based range of the node it was appended for
AllRecordsRendered ==
    \A k \in Records :
        LET j == emittedBy[k].capture
        IN  IF emittedBy[k].context
            THEN formattedOutput[k] = Rendered(ParentContext(j)[1], ParentContext(j)[2])
            ELSE formattedOutput[k] = Rendered(DefRange(j)[1], DefRange(j)[2])

\* scenario S1: the 20-line file whose definitions are at (2,11) and (13,19)
S1_SmallTsFile ==
    /\ pc = "returned"
    /\ language = "ts"
    /\ Len(lines) = 20
    /\ {DefRange(j) : j \in {h \in Handled : Definitional(h)}} = {<<2, 11>>, <<13, 19>>}
    /\ \A range \in {<<2, 11>>, <<13, 19>>} :
          \E j \in Handled :
              Definitional(j) /\ DefRange(j) = range /\ ~DroppedByContentFilter(j)

\* C13: a definition with internal range (s, e) is rendered as
\* "(s+1)--(e+1) | lines[s]", and for the file of S1 the output is exactly the
\* two records 3--12 and 14--20 with headers lines[2] and lines[13].
C13_RenderedExactlyTwoRecords ==
    /\ AllRecordsRendered
    /\ S1_SmallTsFile =>
          formattedOutput =
              << [startLine |-> 3, endLine |-> 12, headerLine |-> lines[3]],
                 [startLine |-> 14, endLine |-> 20, headerLine |-> lines[14]] >>

(***************************************************************************)
(* Properties of the definition listing.  In a state where parsePc is      *)
(* "returned" the call named by operation has resolved to Get(returned).   *)
(***************************************************************************)
ParseReturned == parsePc = "returned" /\ returned # None /\ Get(returned).kind # "rejected"
ReturnedSections == Get(returned).sections
HasSection(file) == \E k \in 1..Len(ReturnedSections) : ReturnedSections[k].name = file
SectionOf(file) ==
    ReturnedSections[CHOOSE k \in 1..Len(ReturnedSections) : ReturnedSections[k].name = file]
\* a tree-sitter file for whose extension the registry has no entry
NoParserEntry(file) ==
    /\ ~IsMarkdown(extname(file))
    /\ Slice1(extname(file)) \notin languageParsers

\* C14: a file for whose extension no parser entry is available contributes
\* no text to what parseSourceCodeDefinitionsForFile or
\* parseSourceCodeForDefinitionsTopLevel returns.
C14_NoParserEntryNoText ==
    ParseReturned =>
        \A file \in Range(allFiles) : NoParserEntry(file) => ~HasSection(file)

TopLevelReturned == parsePc = "returned" /\ operation = "topLevel"
\* the files of the two loops, in the order they are handled
LoopFiles == markdownFiles \o otherFiles
\* the language processCaptures is called with for a file
LanguageOf(file) ==
    IF IsMarkdown(extname(file)) THEN "markdown" ELSE Slice1(extname(file))
\* the definitions of a file that parses
DefinitionsOf(file) == processCaptures(CapturesIn(file), LinesOf(file), LanguageOf(file))
\* the file gets as far as its parser, and parses
Parses(file) ==
    /\ file \notin throwingFiles
    /\ IsMarkdown(extname(file)) \/ Slice1(extname(file)) \in languageParsers

\* C15: a parser error on a file makes that file yield no definitions and
\* does not stop parseSourceCodeForDefinitionsTopLevel: the call returns
\* normally and the definitions of every other file that parses, the ones
\* after the failing file included, are in the result.
C15_ParseErrorSkipsOneFile ==
    TopLevelReturned /\ allFiles # << >> =>
        /\ Get(returned).kind \in {"sections", "message"}
        /\ fileIndex = Len(LoopFiles)
        /\ \A file \in logged : ~HasSection(file)
        /\ \A file \in Range(LoopFiles) :
              (Parses(file) /\ DefinitionsOf(file) # None) =>
                  /\ HasSection(file)
                  /\ SectionOf(file).definitions = DefinitionsText(Get(DefinitionsOf(file)))
C15_Witness ==
    /\ TopLevelReturned
    /\ Len(otherFiles) >= 2
    /\ otherFiles[1] \in logged
    /\ Parses(otherFiles[2])
    /\ HasSection(otherFiles[2])
    /\ SectionOf(otherFiles[2]).definitions.kind = "definitions"
    /\ Len(ReturnedSections) = 1

(***************************************************************************)
(* Properties of the indexer state machine.                                *)
(***************************************************************************)
ControllerReady == isEnabled /\ IsConfigured(This)
EntersIndexing == indexerState # "Indexing" /\ indexerState' = "Indexing"

\* C16: a start is rejected unless the controller reports enabled and
\* configured: no step takes the indexer into Indexing while the controller
\* is disabled or unconfigured, and a rejected start leaves the state alone.
C16_StartNeedsReadyController ==
    [][ /\ EntersIndexing => ControllerReady
        /\ (lastStart' # lastStart /\ lastStart' \in {"accepted", "restarted"})
              => (ControllerReady /\ indexerState' = "Indexing")
        /\ (lastStart' # lastStart /\ lastStart' \in {"rejected", "restart rejected"})
              => (~ControllerReady /\ indexerState' = indexerState)
      ]_vars
C16_Witness ==
    /\ lastStart = "rejected"
    /\ indexerState = "Standby"
    /\ isEnabled
    /\ ~IsConfigured(This)
    /\ restartedFrom = "none"

\* the manager takes a requiresRestart signal while the indexer is not in Standby
RestartSignalled ==
    /\ loadResult # None /\ loadResult' = None
    /\ Get(loadResult).requiresRestart
    /\ indexerState # "Standby"
\* the restart takes its second step
RestartCompletes == restartPhase = "stopped" /\ restartPhase' = "none"
\* between the two halves of a restart: Standby, watcher disposed
StoppedForRestart == restartPhase = "stopped" => (indexerState = "Standby" /\ ~watcherArmed)
\* the signal takes the indexer to Standby and disposes the watcher
SignalStopsIndexer ==
    RestartSignalled =>
        (indexerState' = "Standby" /\ ~watcherArmed' /\ restartPhase' = "stopped")
\* Indexing is entered from Standby only
IndexingFromStandbyOnly == EntersIndexing => indexerState = "Standby"

\* C17 as stated: on requiresRestart in a non-Standby state the indexer goes
\* to Standby, disposes the watcher, and only then enters Indexing with a full
\* rescan; the watcher is never left armed across a restart.
C17_RestartEntersIndexing ==
    /\ []StoppedForRestart
    /\ [][ /\ SignalStopsIndexer
           /\ IndexingFromStandbyOnly
           /\ RestartCompletes =>
                 (indexerState' = "Indexing" /\ fullRescan' /\ ~watcherArmed')
         ]_vars
\* C17 amended: ... and only then, if the controller reports enabled and
\* configured, enters Indexing with a full rescan; otherwise the start is
\* rejected and the indexer stays in Standby.  The watcher is never left
\* armed across a restart.
C17_RestartStartsIfReady ==
    /\ []StoppedForRestart
    /\ [][ /\ SignalStopsIndexer
           /\ IndexingFromStandbyOnly
           /\ RestartCompletes =>
                 /\ ~watcherArmed'
                 /\ IF ControllerReady
                    THEN indexerState' = "Indexing" /\ fullRescan'
                    ELSE indexerState' = "Standby"
         ]_vars
C17_Witness ==
    /\ lastStart = "restarted"
    /\ restartedFrom = "Watching"
    /\ indexerState = "Indexing"
    /\ fullRescan
    /\ ~watcherArmed


(***************************************************************************)
(* Properties of the pipeline and its manifest.                            *)
(***************************************************************************)

\* the file is of the delta of the current run
InDelta(f) == runPhase = "running" /\ fileStage[f] \in {"delta", "chunked", "skipped", "written"}
\* the vector of every chunk of the file is in the store
NoChunkOutstanding(f) == \A c \in ChunksOf(f) : chunkStage[c] = "upserted"
\* the manifest holds the hash the current run computed for the file
HoldsNewHash(f) == InDelta(f) /\ manifest[f] = seen[f]

\* C18: for every file in every run, the manifest entry of the file is
\* updated strictly after all vectors of all of that file's chunks have been
\* upserted; in no reachable state does the manifest hold a file's new hash
\* while one of its chunks is not yet upserted.
C18_ManifestAfterUpserts ==
    /\ [](\A f \in IndexedFiles : HoldsNewHash(f) => NoChunkOutstanding(f))
    /\ [][\A f \in IndexedFiles :
            (manifest'[f] # manifest[f] /\ manifest'[f] # NoFile) =>
                /\ InDelta(f)
                /\ NoChunkOutstanding(f)
                /\ manifest'[f] = seen[f]
         ]_vars
C18_Witness ==
    /\ HoldsNewHash("f1")
    /\ manifest["f1"] = "h2"
    /\ NoChunkOutstanding("f1")
    /\ fileStage["f2"] = "chunked"
    /\ chunkStage[<<"f2", 1>>] = "embedded"


\* the scan of the current run found the file with some content
Scanned(f) == runPhase = "running" /\ seen[f] \notin {NoFile, Unseen}
\* same content hash in the last run and in the current one, and the last
\* run wrote the manifest entry of the file
UnchangedSinceWritten(f) ==
    /\ Scanned(f)
    /\ prevSeen[f] = seen[f]
    /\ prevStage[f] = "written"
\* the current run has not chunked the file, nor embedded or upserted any
\* of its chunks
Untouched(f) ==
    /\ fileStage[f] = "none"
    /\ \A c \in ChunksOf(f) : chunkStage[c] = "none"
\* what the current run chunks was added or modified: the manifest entry is
\* absent or differs from the scanned hash until the run writes it
OnlyAddedOrModifiedChunked ==
    \A f \in IndexedFiles :
        (runPhase = "running" /\ ~Untouched(f) /\ fileStage[f] \notin {"toDelete", "deleted"}) =>
            /\ Scanned(f)
            /\ fileStage[f] = "written" \/ manifest[f] # seen[f]

\* C19 as stated: for every file whose content hash is the same in two
\* consecutive runs and whose manifest entry was written by the first run,
\* the second run performs zero embed calls and zero vector-store upserts
\* for that file; only added and modified files are chunked and re-embedded.
C19_UnchangedFileUntouched ==
    /\ \A f \in IndexedFiles : UnchangedSinceWritten(f) => Untouched(f)
    /\ OnlyAddedOrModifiedChunked
\* C19 amended: ... the second run performs zero embed calls and zero
\* upserts for that file, unless ensureCollection recreated the collection
\* for a changed dimension at the start of the second run: then every file
\* of the scan is chunked and re-embedded.  Only added and modified files
\* are chunked and re-embedded.
C19_UnchangedFileUntouchedUnlessRecreated ==
    /\ \A f \in IndexedFiles : (UnchangedSinceWritten(f) /\ ~recreated) => Untouched(f)
    /\ \A f \in IndexedFiles : (Scanned(f) /\ recreated) => InDelta(f)
    /\ OnlyAddedOrModifiedChunked
C19_Witness ==
    /\ UnchangedSinceWritten("f1")
    /\ ~recreated
    /\ runKind = "full"
    /\ Untouched("f1")
    /\ prevStage["f2"] = "skipped"
    /\ chunkStage[<<"f2", 1>>] = "upserted"


\* stages of a file of the delta whose manifest write has not happened
Unwritten == {"delta", "chunked", "skipped"}
\* the step ends a run in Error
RunEndsInError == runPhase = "running" /\ runPhase' = "idle" /\ lastOutcome' = "error"
\* the run that ended last ended in Error before the manifest write for f
FailedBeforeWrite(f) == lastOutcome = "error" /\ prevStage[f] \in Unwritten
\* from its scan to its end in Error the run leaves the manifest entry of a
\* file alone whose manifest write it does not reach, so that the entry is
\* not the hash the run computed
EntryLeftUnchanged ==
    /\ [][\A f \in IndexedFiles :
            /\ (runPhase = "running" /\ runPhase' = "running" /\ fileStage'[f] \in Unwritten)
                  => manifest'[f] = manifest[f]
            /\ (RunEndsInError /\ prevStage'[f] \in Unwritten)
                  => manifest'[f] = manifest[f]
         ]_vars
    /\ [](\A f \in IndexedFiles :
            (runPhase = "idle" /\ FailedBeforeWrite(f)) => manifest[f] # prevSeen[f])

\* C20 as stated: if a run ends in Error (vector-store failure, dropped
\* embed batch or IO error) before the manifest write for a file f, the
\* manifest entry of f is left unchanged by that run and the next run
\* re-processes f.
C20_FailedFileReprocessed ==
    /\ EntryLeftUnchanged
    /\ [](\A f \in IndexedFiles :
            (runPhase = "running" /\ FailedBeforeWrite(f)) => InDelta(f))
\* C20 amended: ... the manifest entry of f is left unchanged by that run
\* and the next run re-processes f, unless by the scan of that run f was
\* deleted or its content was changed back to the hash of its manifest entry.
C20_FailedFileReprocessedUnlessReverted ==
    /\ EntryLeftUnchanged
    /\ [](\A f \in IndexedFiles :
            (runPhase = "running" /\ FailedBeforeWrite(f)) =>
                \/ InDelta(f)
                \/ seen[f] = NoFile
                \/ seen[f] = manifest[f] /\ seen[f] # prevSeen[f])
C20_Witness ==
    /\ runPhase = "running"
    /\ FailedBeforeWrite("f1")
    /\ prevStage["f1"] = "chunked"
    /\ prevSeen["f1"] = "h2"
    /\ seen["f1"] = "h2"
    /\ manifest["f1"] = "h1"
    /\ ~recreated
    /\ chunkStage[<<"f1", 1>>] = "embedded"


\* a step that leaves the current run as it is
RunUndisturbed ==
    UNCHANGED <<runPhase, runKind, recreated, seen, fileStage, chunkStage, manifest,
                collectionDim, lastOutcome>>
\* a file event: the content of a file on disk changes
FileEvent(p) == disk'[p] # disk[p]
\* a run starts with the step
RunStarts == runPhase' = "running" /\ seen' # seen
\* the pending delta can be executed: the watcher that holds it is armed,
\* and when no run is active after a completed run the next run may start
DeltaExecutable ==
    pending # {} =>
        /\ watching
        /\ (runPhase = "idle" /\ lastOutcome = "ok") => ENABLED BeginIncrementalRun

ModelIdChanged == Prev.modelId # modelId
\* both (provider, resolved model) pairs are in the table, with one dimension
SameKnownDimension ==
    /\ PrevTableDimension # None
    /\ CurTableDimension # None
    /\ PrevTableDimension = CurTableDimension

\* C22: previous and current both enabled and configured, same provider,
\* credentials and vector-store settings: a change of modelId between two
\* models whose resolved dimensions are both known and equal requires no
\* restart; a missing modelId counts as the provider's default model.
C22_SameDimensionModelChangeNoRestart ==
    (/\ Returned
     /\ BothReady
     /\ ~ProviderChanged
     /\ ~ActiveCredentialsChanged
     /\ ~VectorStoreChanged
     /\ ModelIdChanged
     /\ SameKnownDimension)
        => ~RequiresRestart
C22_Witness ==
    /\ Returned
    /\ BothReady
    /\ Prev.embedderProvider = "ollama" /\ embedderProvider = "ollama"
    /\ Prev.modelId = None
    /\ modelId = Some("alt-768")
    /\ ~ActiveCredentialsChanged /\ ~VectorStoreChanged
    /\ ~RequiresRestart


RecognisedProviders == {"openai", "ollama", "openai-compatible"}
\* the providers whose option set is defined
ProvidersWithOptions ==
    {p \in RecognisedProviders :
        \/ p = "openai" /\ openAiOptions # None
        \/ p = "ollama" /\ ollamaOptions # None
        \/ p = "openai-compatible" /\ openAiCompatibleOptions # None}
\* a load has read a configuration with this provider
LastLoadedProvider == Get(lastLoadedConfig).embedder.provider

\* C23: in every state reachable by initialize and loadConfiguration calls
\* at most one of the three option sets is defined, and a defined one belongs
\* to the current embedderProvider; after a load with a recognised provider
\* exactly the options of that provider are defined, and a load with an
\* unrecognised provider leaves provider, modelId and the three option sets
\* unchanged.
C23_OnlyActiveProviderOptions ==
    /\ [](ProvidersWithOptions \subseteq {embedderProvider})
    /\ []((lastLoadedConfig # None /\ LastLoadedProvider \in RecognisedProviders) =>
            (embedderProvider = LastLoadedProvider
                /\ ProvidersWithOptions = {embedderProvider}))
    /\ [][(lastLoadedConfig' # None
             /\ Get(lastLoadedConfig').embedder.provider \notin RecognisedProviders) =>
                UNCHANGED <<embedderProvider, modelId, openAiOptions, ollamaOptions,
                            openAiCompatibleOptions>>
         ]_vars
C23_Witness ==
    /\ Returned
    /\ LastLoadedProvider \notin RecognisedProviders
    /\ embedderProvider = "ollama"
    /\ ProvidersWithOptions = {"ollama"}
    /\ Prev.embedderProvider = "ollama"
    /\ modelId = Some("alt-768")
    /\ Prev.enabled /\ ~isEnabled


(***************************************************************************)
(* Further properties of the definition listing.                           *)
(***************************************************************************)

\* parseSourceCodeDefinitionsForFile found the file to exist
FileExisted ==
    Get(returned) # Message("This file does not exist or you do not have permission to access it.")
\* the sections collected so far hold one for the file
Collected(file) == \E k \in 1..Len(topResult) : topResult[k].name = file

\* C24: the content of an existing file for which workspace.shouldIgnore is
\* true is never read and no definitions of it are output:
\* parseSourceCodeDefinitionsForFile returns undefined for it and
\* parseSourceCodeForDefinitionsTopLevel produces no section for it, markdown
\* or not.
C24_IgnoredFilesNeverRead ==
    \A file \in ignoredFiles :
        /\ file \notin readFiles
        /\ ~Collected(file)
        /\ (parsePc = "returned" /\ operation = "forFile" /\ FileExisted)
              => Get(returned) = Undefined
        /\ (parsePc = "returned" /\ operation = "topLevel")
              => (Get(returned).kind # "rejected" /\ ~HasSection(file))
C24_Witness ==
    /\ parsePc = "returned"
    /\ operation = "topLevel"
    /\ ignoredFiles = {"c.md"}
    /\ allFiles = <<"c.md", "a.ts">>
    /\ readFiles = {"a.ts"}
    /\ HasSection("a.ts")
    /\ ~HasSection("c.md")

====
